---- MODULE Spec2Model ----
(***************************************************************************)
(* The separation subproblem engine of PyROS                               *)
(* (pyomo/contrib/pyros/separation_problem_methods.py).                    *)
(*                                                                         *)
(* Python indices start at 0, TLA+ sequences at 1: performance constraint  *)
(* j of the source is j + 1 here, and the sentinel None is 0.              *)
(*                                                                         *)
(* Objective values are integers.  A scaled violation l / denom is kept    *)
(* exactly, as the integer l * Unit / denom, Unit being the least common   *)
(* multiple of the denominators max(1, |nominal value|) the model draws;   *)
(* robust_feasibility_tolerance is kept in the same unit.                  *)
(***************************************************************************)
EXTENDS Integers, Sequences, FiniteSets, TLC

\* ------------------------------------------------------------------ bounds

\* number of performance constraints (= separation objectives)
NumCons == 2
\* configured separation priorities are drawn from 1..MaxPriority (default 0)
MaxPriority == 1
\* config.backup_local_solvers / backup_global_solvers hold up to MaxBackups
MaxBackups == 1
\* the elapsed-time reading saturates at MaxElapsed
MaxElapsed == 1
\* scenarios of a discrete uncertainty set
NumScenarios == 2

\* values an objective expression takes at a loaded solution
RawValues == {-1, 2}
\* values of a constraint in the master's nominal scenario
NominalValues == {0, -2}
\* termination conditions a subordinate solver reports
SolverStatuses == {"optimal", "locallyOptimal", "infeasible"}

Cons == 1..NumCons

\* ------------------------------------------------------------- arithmetic

Max2(a, b) == IF a >= b THEN a ELSE b

Abs(x) == IF x < 0 THEN -x ELSE x

SetMax(S) == CHOOSE m \in S : \A x \in S : x <= m

RECURSIVE SeqSum(_)
SeqSum(s) == IF s = <<>> THEN 0 ELSE Head(s) + SeqSum(Tail(s))

\* denom = float(max(1, abs(nom_value)))
denom(nom_value) == Max2(1, Abs(nom_value))

\* the unit in which scaled violations are kept exact
Unit == CHOOSE u \in 1..16 :
          /\ \A n \in NominalValues : u % denom(n) = 0
          /\ \A w \in 1..(u - 1) : \E n \in NominalValues : w % denom(n) # 0

\* l / denom, in units of 1 / Unit
scaled(l, nom_value) == (l * Unit) \div denom(nom_value)

\* the non-strict comparison, which counts a value at the tolerance
reaches_tol(v, tol) == v >= tol

\* value(active_objective) / denom > tol
exceeds_tol(v, tol) == v > tol

\* ------------------------------------------------------ violation results

\* SeparationResult() before any attribute is set
NoResult ==
  [termination_condition |-> "unset",
   found_violation |-> FALSE,
   list_of_scaled_violations |-> <<>>,
   violating_param_realization |-> <<>>,
   objective_values |-> <<>>,
   nom_value |-> 0,
   active_objective |-> 0,
   time_limit_reached |-> FALSE,
   fixed_point |-> <<>>,
   stop_signal |-> FALSE,
   exported |-> FALSE,
   solve_time |-> 0,
   attempt |-> 0]

\* next(component_data_objects(Objective, active=True)): the first active
\* objective in declaration order
active_objective_of(active) ==
  CHOOSE o \in Cons : active[o] /\ \A p \in Cons : active[p] => o <= p

\* get_all_sep_objective_values, scaled: [l / denom for l in list_of_violations]
list_of_scaled_violations_of(values, nom_value) ==
  [j \in Cons |-> scaled(values[j], nom_value)]

\* update_solve_data_violations: the result after the solution `values`
\* (the value of every separation objective expression) has been loaded
update_solve_data_violations(solve_data, values, nom_value, tol, active, point) ==
  LET o == active_objective_of(active)
  IN  [solve_data EXCEPT
         !.violating_param_realization = point,
         !.list_of_scaled_violations = list_of_scaled_violations_of(values, nom_value),
         !.objective_values = values,
         !.nom_value = nom_value,
         !.active_objective = o,
         !.found_violation = exceeds_tol(scaled(values[o], nom_value), tol)]

locally_acceptable == {"optimal", "locallyOptimal", "globallyOptimal"}

globally_acceptable == {"optimal", "globallyOptimal"}

\* the local set, whatever the tier
locally_acceptable_in_any_tier(is_global) == locally_acceptable

acceptable_conditions(is_global) ==
  IF is_global THEN globally_acceptable ELSE locally_acceptable

\* ---------------------------------------------------- solver time settings

\* the max-time option of a solver object: absent, or a number of seconds
NoSetting == [custom_setting_present |-> FALSE, max_time |-> 0]

Settings == {NoSetting, [custom_setting_present |-> TRUE, max_time |-> MaxElapsed + 2]}

\* adjust_solver_time_settings(timing, opt, config): with a time limit
\* configured the solver's max time is capped by the time remaining
adjust_solver_time_settings(setting, time_limit, now) ==
  IF time_limit = 0 THEN setting
  ELSE LET remaining == Max2(time_limit - now, 0)
       IN  [custom_setting_present |-> TRUE,
            max_time |-> IF setting.custom_setting_present /\ setting.max_time < remaining
                           THEN setting.max_time ELSE remaining]

\* the adjustment kept as it is
keep_solver_max_time_adjustment(setting, orig_setting, custom_setting_present, time_limit) ==
  setting

\* revert_solver_max_time_adjustment(opt, orig_setting, custom_setting_present, config)
revert_solver_max_time_adjustment(setting, orig_setting, custom_setting_present, time_limit) ==
  IF time_limit = 0 THEN setting
  ELSE IF custom_setting_present
    THEN [custom_setting_present |-> TRUE, max_time |-> orig_setting]
  ELSE NoSetting

\* the list object itself, not a copy
same_object(l) == [shared |-> TRUE, items |-> l]

\* deepcopy(config.backup_..._solvers): a list of new solver objects
deepcopy(l) == [shared |-> FALSE, items |-> l]

\* ------------------------------------------- get_index_of_max_violation

Iota(n) == [i \in 1..n |-> i]

\* len([v for v in row if v.found_violation])
found_count(row) == Cardinality({k \in 1..Len(row) : row[k].found_violation})

\* max((val.list_of_scaled_violations[idx], the_index) for the_index, val in
\* enumerate(row)): the greatest pair, so the last position among equal values
max_scaled_position(row, idx) ==
  CHOOSE k \in 1..Len(row) : \A m \in 1..Len(row) :
    \/ row[m].list_of_scaled_violations[idx] < row[k].list_of_scaled_violations[idx]
    \/ /\ row[m].list_of_scaled_violations[idx] = row[k].list_of_scaled_violations[idx]
       /\ m <= k

\* violation_idx of one row of a discrete solve_data_list
violation_idx_of(row, idx) ==
  IF found_count(row) > 1
    THEN max_scaled_position(row, idx)
    ELSE CHOOSE k \in 1..Len(row) : row[k].found_violation

\* reading list_of_scaled_violations[idx] of a result that never stored one
scan_raises(solve_data_list, is_discrete) ==
  /\ is_discrete
  /\ \E idx \in 1..Len(solve_data_list) :
       /\ found_count(solve_data_list[idx]) > 1
       /\ \E k \in 1..Len(solve_data_list[idx]) :
            Len(solve_data_list[idx][k].list_of_scaled_violations) < idx

row_is_violating(solve_data_list, is_discrete, i) ==
  IF is_discrete
    THEN found_count(solve_data_list[i]) > 0
    ELSE solve_data_list[i][1].found_violation

indices_of_violating_realizations(solve_data_list, is_discrete) ==
  LET Keep(i) == row_is_violating(solve_data_list, is_discrete, i)
  IN  SelectSeq(Iota(Len(solve_data_list)), Keep)

matrix_dim_of(solve_data_list, is_discrete) ==
  IF is_discrete
    THEN Len(indices_of_violating_realizations(solve_data_list, is_discrete))
    ELSE SeqSum([i \in 1..Len(solve_data_list) |-> found_count(solve_data_list[i])])

\* violation_dict: row -> position of the result that stands for the row
violation_dict_of(solve_data_list, is_discrete) ==
  LET rows == {i \in 1..Len(solve_data_list) :
                 row_is_violating(solve_data_list, is_discrete, i)}
  IN  [k \in rows |->
         IF is_discrete
           THEN violation_idx_of(solve_data_list[k], k)
           ELSE SetMax({l \in 1..Len(solve_data_list[k]) :
                          solve_data_list[k][l].found_violation})]

\* matrix_of_violations[i][j]
matrix_of_violations(solve_data_list, is_discrete) ==
  LET indices == indices_of_violating_realizations(solve_data_list, is_discrete)
      dict == violation_dict_of(solve_data_list, is_discrete)
  IN  [i \in 1..matrix_dim_of(solve_data_list, is_discrete) |->
        [j \in Cons |->
          IF is_discrete
            THEN Max2(solve_data_list[indices[i]][dict[indices[i]]]
                        .list_of_scaled_violations[j], 0)
            ELSE Max2(solve_data_list[indices[i]][1].list_of_scaled_violations[j], 0)]]

\* sums[i]: the sum of column i over the rows of the matrix
column_sums(matrix) ==
  [j \in Cons |-> SeqSum([i \in 1..Len(matrix) |-> matrix[i][j]])]

\* the last position of the maximum
last_index_of_max(sums) ==
  CHOOSE j \in 1..Len(sums) :
    /\ \A m \in 1..Len(sums) : sums[m] <= sums[j]
    /\ \A m \in (j + 1)..Len(sums) : sums[m] < sums[j]

\* sums.index(max(sums)): the first position of the maximum
index_of_max(sums) ==
  CHOOSE j \in 1..Len(sums) :
    /\ \A m \in 1..Len(sums) : sums[m] <= sums[j]
    /\ \A m \in 1..(j - 1) : sums[m] < sums[j]

None == 0

\* get_index_of_max_violation: (idx_i, idx_j), or the exception it raises
get_index_of_max_violation(solve_data_list, is_discrete) ==
  IF scan_raises(solve_data_list, is_discrete)
    THEN [error |-> "TypeError", idx_i |-> None, idx_j |-> None]
  ELSE IF matrix_dim_of(solve_data_list, is_discrete) = 0
    THEN [error |-> "none", idx_i |-> None, idx_j |-> None]
  ELSE
    LET sums == column_sums(matrix_of_violations(solve_data_list, is_discrete))
        i == index_of_max(sums)
        dict == violation_dict_of(solve_data_list, is_discrete)
    IN  IF ~is_discrete
          THEN [error |-> "none", idx_i |-> i, idx_j |-> 1]
        ELSE IF i \in DOMAIN dict
          THEN [error |-> "none", idx_i |-> i, idx_j |-> dict[i]]
        ELSE [error |-> "KeyError", idx_i |-> i, idx_j |-> None]

\* ------------------------------------------------------------ solve times

\* local_solve_time = 0 and global_solve_time = 0
NoSolveTimes == [local_solve_time |-> 0, global_solve_time |-> 0]

\* get_time_from_solver(s.results): the time the solver took, stored with
\* the results after the solve
get_time_from_solver(s) == s.solve_time

\* for sublist in solve_data_list: for s in sublist: get_time_from_solver
total_time_of(solve_data_list) ==
  SeqSum([i \in 1..Len(solve_data_list) |->
            SeqSum([k \in 1..Len(solve_data_list[i]) |->
                      get_time_from_solver(solve_data_list[i][k])])])

\* what is added to the solve time of the tier once a constraint has been
\* separated: for a discrete set the times of every result in
\* solve_data_list, else the time of solve_data alone
time_added(solve_data_list, discrete) ==
  IF discrete THEN total_time_of(solve_data_list)
  ELSE get_time_from_solver(solve_data_list[Len(solve_data_list)][1])

\* === Keep track of total solve times
solve_times_after(times, solve_data_list, global, discrete) ==
  IF global
    THEN [times EXCEPT !.global_solve_time =
                         @ + time_added(solve_data_list, discrete)]
    ELSE [times EXCEPT !.local_solve_time =
                         @ + time_added(solve_data_list, discrete)]

\* the list of the tier before carried into the next
carried_over(solve_data_list) == solve_data_list

\* solve_data_list = [] at the head of each pass of separation_cycle
fresh_list(solve_data_list) == <<>>

\* ------------------------------------------------------ priority schedule

\* every constraint given the default priority
all_default_priority(separation_priority_order) == [c \in Cons |-> 0]

\* actual_sep_priority_dict[perf_con] = config_sep_priority_dict.get(name, 0)
actual_sep_priority_dict(separation_priority_order) ==
  [c \in Cons |->
     IF c \in DOMAIN separation_priority_order
       THEN separation_priority_order[c] ELSE 0]

RECURSIVE sorted_reverse(_)
\* sorted(list(S), reverse=True)
sorted_reverse(S) ==
  IF S = {} THEN <<>>
  ELSE LET m == SetMax(S) IN <<m>> \o sorted_reverse(S \ {m})

RECURSIVE sorted_forward(_)
\* sorted(list(S)) without reverse=True
sorted_forward(S) ==
  IF S = {} THEN <<>>
  ELSE LET m == SetMax(S) IN sorted_forward(S \ {m}) \o <<m>>

\* the bins lowest priority first
ascending_unique_priorities(actual) ==
  sorted_forward({actual[c] : c \in DOMAIN actual})

sorted_unique_priorities(actual) ==
  sorted_reverse({actual[c] : c \in DOMAIN actual})

\* [constr for constr, priority in actual_sep_priority_dict.items() if priority == val]
perf_constraints(actual, val) ==
  LET InBin(c) == actual[c] = val
  IN  SelectSeq(Iota(NumCons), InBin)

\* the global tier ahead of the local one
global_first_cycle(bypass_local_separation, bypass_global_separation) ==
  IF bypass_global_separation THEN <<FALSE>>
  ELSE IF bypass_local_separation THEN <<TRUE>>
  ELSE <<TRUE, FALSE>>

\* separation_cycle: the tiers of one call, False = local, True = global
separation_cycle(bypass_local_separation, bypass_global_separation) ==
  IF bypass_global_separation THEN <<FALSE>>
  ELSE IF bypass_local_separation THEN <<TRUE>>
  ELSE <<FALSE, TRUE>>

\* --------------------------------------------------------- discrete_solve

\* the uncertain parameters (surrogate variables) of the model
NumParams == 2

\* the point of scenario s of the modelled discrete set
scenario_point(s) == [d \in 1..NumParams |-> IF d = 1 THEN s ELSE 0 - s]

\* chunk_size = len(uncertain_param_vars)
chunk_size == NumParams

\* config.uncertainty_set.scenarios.index(tuple(pnt)), counted from 0
scenarios_index(scenarios, pnt) ==
  (CHOOSE i \in 1..Len(scenarios) :
     /\ scenarios[i] = pnt
     /\ \A m \in 1..(i - 1) : scenarios[m] # pnt) - 1

\* the lower bound of constraint k (from 0) of uncertainty_set_constraint:
\* chunk k div D belongs to one scenario, its entry k mod D to one coordinate
con_lower(scenarios, k) ==
  scenarios[(k \div chunk_size) + 1][(k % chunk_size) + 1]

\* the constraints of the scenario after _idx
skip_index_list_shifted(_idx) ==
  (chunk_size * (_idx + 1))..(chunk_size * (_idx + 1) + chunk_size - 1)

\* skip_index_list = list(range(chunk_size * _idx, chunk_size * _idx + chunk_size))
skip_index_list(_idx) ==
  (chunk_size * _idx)..(chunk_size * _idx + chunk_size - 1)

\* constraints_to_skip, as positions of _constraints
constraints_to_skip(scenarios, points) ==
  LET n == Len(scenarios) * chunk_size
  IN  {k \in 0..(n - 1) :
         \E p \in 1..Len(points) :
           k \in skip_index_list(scenarios_index(scenarios, points[p]))}

\* constraints = list(c for c in _constraints if c not in constraints_to_skip)
constraints_left(scenarios, points) ==
  LET n == Len(scenarios) * chunk_size
      skip == constraints_to_skip(scenarios, points)
      Kept(k) == k \notin skip
  IN  SelectSeq([i \in 1..n |-> i - 1], Kept)

\* range(0, len(constraints), chunk_size): the number of chunks
num_chunks(constraints) ==
  (Len(constraints) + chunk_size - 1) \div chunk_size

\* chunk = list(constraints[i : i + chunk_size]), for the c-th value of i
chunk_of(constraints, c) ==
  LET lo == (c - 1) * chunk_size + 1
      hi == IF lo + chunk_size - 1 <= Len(constraints)
              THEN lo + chunk_size - 1 ELSE Len(constraints)
  IN  SubSeq(constraints, lo, hi)

\* uncertain_param_vars[idx].fix(con.lower) for idx, con in enumerate(chunk)
fix_to_chunk(param_vars, scenarios, chunk) ==
  [d \in 1..NumParams |->
     IF d <= Len(chunk) THEN con_lower(scenarios, chunk[d]) ELSE param_vars[d]]

\* ------------------------------------- make_separation_objective_functions

\* constraints of the model handed to make_separation_objective_functions
MaxModelCons == 2

\* the values of a bound that is present, and of a constraint body
BoundValues == {1}
BodyValues == {0, 2}

\* a constraint: c.equality, c.lower and c.upper (None when absent), the
\* value of c.body, whether c.expr holds an uncertain parameter, a state
\* variable or a second-stage variable, and whether c is active
ModelConstraints ==
  {c \in [equality : BOOLEAN,
          lower : {None} \cup BoundValues,
          upper : {None} \cup BoundValues,
          body : BodyValues,
          depends : BOOLEAN,
          active : BOOLEAN] :
     c.equality => (c.lower # None /\ c.upper = c.lower)}

\* not c.equality and (uncertain_params_in_expr or state_vars_in_expr or
\* second_stage_variables_in_expr)
is_performance_constraint(c) == ~c.equality /\ c.depends

\* the performance constraints, as positions of the active constraints of
\* the model in declaration order
performance_constraints_of(cons) ==
  LET picked(i) == cons[i].active /\ is_performance_constraint(cons[i])
  IN  SelectSeq(Iota(Len(cons)), picked)

\* the check left out
never_empty(perf) == FALSE

\* if len(model.util.performance_constraints) == 0
none_identified(perf) == Len(perf) = 0

\* the bound subtracted from the body
reversed_expr(c) == c.upper - c.body

\* Objective(expr=c.body - c.upper, sense=maximize)
objective_expr(c) == c.body - c.upper

\* the position in perf of the first constraint in >= form, 0 if none
first_unsupported(cons, perf) ==
  LET bad == {k \in 1..Len(perf) :
                cons[perf[k]].upper = None /\ cons[perf[k]].lower # None}
  IN  IF bad = {} THEN 0 ELSE CHOOSE k \in bad : \A m \in bad : k <= m

\* the model after make_separation_objective_functions, and the exception
\* it raised if any
make_separation_objective_functions(cons) ==
  LET perf == performance_constraints_of(cons)
      bad == first_unsupported(cons, perf)
      empty == none_identified(perf)
      \* constraints the loop of objectives has taken before it ended
      taken == IF empty THEN 0 ELSE IF bad = 0 THEN Len(perf) ELSE bad
      with_obj(k) == k <= taken /\ cons[perf[k]].upper # None
      raised == empty \/ bad # 0
  IN  [constraints |->
         [i \in 1..Len(cons) |->
            [cons[i] EXCEPT !.active =
               /\ cons[i].active
               /\ \/ cons[i].equality
                  \/ /\ is_performance_constraint(cons[i])
                     /\ ~ \E k \in 1..taken : perf[k] = i]],
       performance_constraints |-> perf,
       separation_objectives |->
         [n \in 1..Len(SelectSeq(Iota(Len(perf)), with_obj)) |->
            LET k == SelectSeq(Iota(Len(perf)), with_obj)[n]
            IN  [expr |-> objective_expr(cons[perf[k]]),
                 sense |-> "maximize",
                 active |-> raised,
                 constr |-> perf[k]]],
       map_obj_to_constr |->
         IF raised THEN {}
         ELSE {perf[k] : k \in {m \in 1..Len(perf) : with_obj(m)}},
       error |-> IF raised THEN "ValueError" ELSE "none",
       built |-> TRUE]

\* the model before the synthesizer has run
unbuilt(cons) ==
  [constraints |-> cons,
   performance_constraints |-> <<>>,
   separation_objectives |-> <<>>,
   map_obj_to_constr |-> {},
   error |-> "none",
   built |-> FALSE]

\* NumCons active inequalities in <= form that depend on the uncertainty
StandardConstraints ==
  [j \in Cons |-> [equality |-> FALSE, lower |-> None, upper |-> 1, body |-> 0,
                   depends |-> TRUE, active |-> TRUE]]

\* ------------------------------------------------- make_separation_problem

\* a constraint of the deterministic model: as above, has_param telling
\* whether c.expr holds an uncertain parameter and depends whether it holds
\* a state variable or a second-stage variable
OriginalConstraints ==
  {c \in [equality : BOOLEAN,
          lower : {None} \cup BoundValues,
          upper : {None} \cup BoundValues,
          body : {0},
          has_param : BOOLEAN,
          depends : BOOLEAN,
          active : BOOLEAN] :
     c.equality => (c.lower # None /\ c.upper = c.lower /\ c.depends /\ c.active)}

\* the deterministic model the clone is mutated with
same_model(m) == [shared |-> TRUE, model |-> m]

\* model_data.original.clone()
clone(m) == [shared |-> FALSE, model |-> m]

\* every surrogate variable initialized to zero
zero_values(uncertain_params) == [i \in 1..Len(uncertain_params) |-> 0]

\* param_vars = Var(range(len(uncertain_params))) and, for each,
\* var.set_value(param.value)
surrogate_values(uncertain_params) ==
  [i \in 1..Len(uncertain_params) |-> uncertain_params[i]]

\* epigraph_constr: first_stage_objective + second_stage_objective - zeta
\* <= 0; its bound is modelled as a bound that is present
epigraph_constr(m) ==
  [equality |-> FALSE, lower |-> None, upper |-> 1, body |-> 0,
   has_param |-> m.objective_has_param, depends |-> TRUE, active |-> TRUE]

\* the original left active
kept_active(c) == c

\* c.deactivate() once its counterpart is in the list
substituted(c) == [c EXCEPT !.active = FALSE]

\* neither an equality nor a constraint with a bound
unparsable(c) == ~c.equality /\ c.lower = None /\ c.upper = None

\* the constraint added to util.new_constraints for c: lower == body,
\* lower <= body or upper >= body, the parameters replaced by the
\* surrogate variables
new_constraint(c) ==
  IF c.equality
    THEN [c EXCEPT !.has_param = FALSE, !.depends = TRUE, !.active = TRUE]
  ELSE IF c.lower # None
    THEN [c EXCEPT !.upper = None, !.has_param = FALSE, !.depends = TRUE,
                   !.active = TRUE]
  ELSE [c EXCEPT !.has_param = FALSE, !.depends = TRUE, !.active = TRUE]

\* make_separation_problem up to the call of the objective synthesizer: the
\* constraints of the clone, those added to util.new_constraints (as
\* positions), the original of each, the surrogate variables, and the
\* exception raised if any
clone_and_substitute(m, cfg) ==
  LET base == m.constraints \o
                (IF cfg.objective_focus = "worst_case"
                   THEN <<epigraph_constr(m)>> ELSE <<>>)
      holds_param(i) == base[i].has_param
      with_param == SelectSeq(Iota(Len(base)), holds_param)
      bad == {k \in 1..Len(with_param) : unparsable(base[with_param[k]])}
      taken == IF bad = {} THEN Len(with_param)
               ELSE (CHOOSE k \in bad : \A n \in bad : k <= n) - 1
      replaced(i) == \E k \in 1..taken : with_param[k] = i
  IN  [constraints |->
         [i \in 1..Len(base) |->
            IF replaced(i) THEN substituted(base[i]) ELSE base[i]]
         \o [k \in 1..taken |-> new_constraint(base[with_param[k]])],
       new_constraints |-> [k \in 1..taken |-> Len(base) + k],
       map_new_constraint_list_to_original_con |->
         [k \in 1..taken |-> with_param[k]],
       uncertain_param_vars |-> surrogate_values(m.uncertain_params),
       error |-> IF bad = {} THEN "none" ELSE "ValueError",
       shared |-> clone(m).shared]

\* ------------------------------------------------------------------ state

VARIABLES
  config,                \* the PyROS solver settings
  objective_active,      \* separation_model: objective j is active
  uncertain_param_vars,  \* separation_model.util.uncertain_param_vars values
  elapsed,               \* get_main_elapsed_time(model_data.timing)
  points_added_to_master,
  master_nominal,        \* value of each constraint in master_nominal_scenario
  master_nominal_scenario_value,
  pc,                    \* where solve_separation_problem stands
  cycle_i,               \* position in separation_cycle
  val_i,                 \* position in sorted_unique_priorities
  perf_i,                \* position in perf_constraints
  solve_data_list,
  exit_separation_loop,
  returned,              \* what the call returned, or the exception it raised
  chunk_i,               \* discrete_solve: the chunk being enumerated
  discrete_list,         \* discrete_solve: its solve_data_list
  opt_i,                 \* solver_call_separation: position in backup_solvers
  solve_data,            \* solver_call_separation: the result being filled
  invoked,               \* history: solvers invoked in this solver_call_separation
  attempted,             \* history: constraints attempted in this call
  budget_bins,           \* history: priorities of the bins in which this call
                         \* found the elapsed-time budget reached
  solver_options,        \* max-time setting of config's solver objects
  at_entry,              \* history: config and solver_options when
                         \* solver_call_separation was entered
  sep_model,             \* the separation model's constraints and objectives
  model_data,            \* the run context: the iteration, the master block's
                         \* variables, the deterministic model, and the
                         \* variables and constraint flags of the separation
                         \* model
  solve_times,           \* solve_separation_problem: local_solve_time and
                         \* global_solve_time
  GlobalSets,            \* global_set.GlobalSets: local name -> registered object
  instances,             \* the global-set objects of the process, by identity
  pickled,               \* the pickles of global sets written so far
  outcome                \* the last operation on a global set and its result

vars ==
  <<config, objective_active, uncertain_param_vars, elapsed,
    points_added_to_master, master_nominal, master_nominal_scenario_value,
    pc, cycle_i, val_i, perf_i, solve_data_list, exit_separation_loop,
    returned, chunk_i, discrete_list, opt_i, solve_data, invoked, attempted,
    budget_bins, solver_options, at_entry, sep_model, model_data,
    solve_times, GlobalSets, instances, pickled, outcome>>

\* the variables of the separation run
run_vars ==
  <<config, objective_active, uncertain_param_vars, elapsed,
    points_added_to_master, master_nominal, master_nominal_scenario_value,
    pc, cycle_i, val_i, perf_i, solve_data_list, exit_separation_loop,
    returned, chunk_i, discrete_list, opt_i, solve_data, invoked, attempted,
    budget_bins, solver_options, at_entry, sep_model, model_data, solve_times>>

frame_vars ==
  <<cycle_i, val_i, perf_i, solve_data_list, exit_separation_loop, returned,
    chunk_i, discrete_list, opt_i, solve_data, invoked, attempted, budget_bins>>

\* ---------------------------------------------------------- global sets
\* pyomo/core/base/global_set.py. A global-set object is known by its
\* identity, its position in instances; position 1 is the object the module
\* creates and registers when it is imported, UnindexedComponent_set.

\* instances constructed beyond the registered one
MaxInstances == 2

NoOutcome ==
  [op |-> "none", obj |-> None, val |-> None, result |-> None,
   raised |-> "none", message |-> <<>>]

\* _get_global_set(name): GlobalSets[name], a KeyError if name is not a key
get_global_set(name) ==
  IF name \in DOMAIN GlobalSets
    THEN [result |-> GlobalSets[name], raised |-> "none"]
    ELSE [result |-> None, raised |-> "KeyError"]

\* self.global_name in the message of the setter
global_name(o) == instances[o].name

\* the _parent setter: val is None or a weak reference to one of four
\* blocks, a model or not, named or not
parent_setter(o, val) ==
  IF val = None THEN [raised |-> "none", message |-> <<>>]
  ELSE LET referent == [name |-> IF val \in {1, 2} THEN "" ELSE "b",
                        is_model |-> val \in {1, 3}]
       IN  [raised |-> "RuntimeError",
            message |-> <<global_name(o),
                          IF referent.is_model THEN "model" ELSE "block",
                          IF referent.name = "" THEN "unknown" ELSE referent.name>>]

\* _UnindexedComponent_set(name): a further object of the class is
\* constructed under some name; local_name is a class attribute, and the
\* object is not registered
construct_instance ==
  /\ Len(instances) < 1 + MaxInstances
  /\ \E name \in {"UnindexedComponent_set", "other"} :
       instances' = Append(instances, [name |-> name,
                                       local_name |-> "UnindexedComponent_set"])
  /\ outcome' = [NoOutcome EXCEPT !.op = "construct", !.obj = Len(instances'),
                                  !.result = Len(instances')]
  /\ UNCHANGED <<GlobalSets, pickled>>
  /\ UNCHANGED run_vars

\* copy.deepcopy(o): __deepcopy__ returns self
deepcopy_global_set ==
  /\ \E o \in 1..Len(instances) :
       outcome' = [NoOutcome EXCEPT !.op = "deepcopy", !.obj = o, !.result = o]
  /\ UNCHANGED <<GlobalSets, instances, pickled>>
  /\ UNCHANGED run_vars

\* the pickle were it to hold the name the object was constructed under
pickle_dumps_by_name ==
  /\ \E o \in 1..Len(instances) :
       /\ pickled' = pickled \cup {[of |-> o, args |-> instances[o].name]}
       /\ outcome' = [NoOutcome EXCEPT !.op = "dumps", !.obj = o]
  /\ UNCHANGED <<GlobalSets, instances>>
  /\ UNCHANGED run_vars

\* pickle.dumps(o): __reduce__ has the pickle hold _get_global_set and its
\* argument, self.local_name; of is the object that was pickled
pickle_dumps ==
  /\ \E o \in 1..Len(instances) :
       /\ pickled' = pickled \cup {[of |-> o, args |-> instances[o].local_name]}
       /\ outcome' = [NoOutcome EXCEPT !.op = "dumps", !.obj = o]
  /\ UNCHANGED <<GlobalSets, instances>>
  /\ UNCHANGED run_vars

\* pickle.loads of a pickle written earlier: _get_global_set(*args)
pickle_loads ==
  /\ \E p \in pickled :
       outcome' = [NoOutcome EXCEPT !.op = "loads", !.obj = p.of,
                                   !.result = get_global_set(p.args).result,
                                   !.raised = get_global_set(p.args).raised]
  /\ UNCHANGED <<GlobalSets, instances, pickled>>
  /\ UNCHANGED run_vars

\* o._parent is read: the property returns None
read_parent ==
  /\ \E o \in 1..Len(instances) :
       outcome' = [NoOutcome EXCEPT !.op = "read_parent", !.obj = o,
                                   !.result = None]
  /\ UNCHANGED <<GlobalSets, instances, pickled>>
  /\ UNCHANGED run_vars

\* o._parent = val
assign_parent ==
  /\ \E o \in 1..Len(instances), val \in 0..4 :
       outcome' = [NoOutcome EXCEPT !.op = "assign_parent", !.obj = o,
                                   !.val = val,
                                   !.raised = parent_setter(o, val).raised,
                                   !.message = parent_setter(o, val).message]
  /\ UNCHANGED <<GlobalSets, instances, pickled>>
  /\ UNCHANGED run_vars

\* separation_priority_order: names of some constraints -> priority
PriorityOrders ==
  UNION {[S -> 1..MaxPriority] : S \in SUBSET Cons}

\* the scenario list of the discrete set, in one of two orders
ScenarioLists ==
  {[s \in 1..NumScenarios |-> scenario_point(s)],
   [s \in 1..NumScenarios |-> scenario_point(NumScenarios + 1 - s)]}

Configs ==
  [geometry : {"continuous", "discrete"},
   separation_priority_order : PriorityOrders,
   bypass_local_separation : BOOLEAN,
   bypass_global_separation : BOOLEAN,
   time_limit : {0, MaxElapsed},
   robust_feasibility_tolerance : {Unit},
   backup_local_solvers : {Iota(n) : n \in 0..MaxBackups},
   backup_global_solvers : {Iota(n) : n \in 0..MaxBackups},
   scenarios : ScenarioLists,
   objective_focus : {"nominal"},
   decision_rule_order : {0},
   keepfiles : {FALSE},
   subproblem_file_directory : {None}]

NoReturn ==
  [kind |-> "none", violating_realizations |-> <<>>, violations |-> <<>>,
   is_global |-> FALSE, idx_i |-> None, idx_j |-> None, logged |-> FALSE]

is_discrete == config.geometry = "discrete"

\* config.local_solver, config.global_solver and the backup solvers, none
\* with a max-time option of its own
default_solver_options(cfg) ==
  [local_solver |-> NoSetting,
   global_solver |-> NoSetting,
   backup_local_solvers |-> [k \in 1..Len(cfg.backup_local_solvers) |-> NoSetting],
   backup_global_solvers |-> [k \in 1..Len(cfg.backup_global_solvers) |-> NoSetting]]

\* the variables of the separation model by name: two first-stage
\* variables, a decision-rule variable, a second-stage variable and a state
\* variable
SepVarNames == {"x1", "x2", "d1", "z1", "y1"}

first_stage_variables == {"x1", "x2"}

decision_rule_vars == {"d1"}

second_stage_variables == {"z1"}

\* the run context after make_separation_problem and the first master
\* solve: iteration 0, every variable of the separation model unfixed and
\* present in the master block, the decision-rule equation and the
\* uncertainty-set constraints active, the h(x,q) constraint deactivated
default_model_data(cfg) ==
  [iteration |-> 0,
   vars |-> [v \in SepVarNames |-> [value |-> 0, fixed |-> FALSE]],
   master_vars |-> [v \in SepVarNames |-> [present |-> TRUE, value |-> 1]],
   decision_rule_eqns |-> <<TRUE>>,
   h_x_q_constraints |-> <<FALSE>>,
   uncertainty_set_constraint |->
     [k \in 1..(Len(cfg.scenarios) * chunk_size) |-> TRUE],
   param_vars_fixed |-> [d \in 1..NumParams |-> FALSE]]

\* ---------------------------------------------------- initialize_separation

\* the block of the latest iteration, whatever the objective focus
latest_block(cfg, md) == md.iteration

\* block_num: 0 if config.objective_focus == ObjectiveType.nominal, else
\* model_data.iteration
block_num(cfg, md) ==
  IF cfg.objective_focus = "nominal" THEN 0 ELSE md.iteration

\* the static policy taken for the affine one
never_static(cfg) == FALSE

\* config.decision_rule_order == 0
static_decision_rule(cfg) == cfg.decision_rule_order = 0

\* the check of the h(x,q) constraints left out
h_x_q_unchecked(md) == FALSE

\* any(c.active for c in model_data.separation_model.util.h_x_q_constraints)
any_h_x_q_active(md) ==
  \E k \in 1..Len(md.h_x_q_constraints) : md.h_x_q_constraints[k]

\* fsv_set: the first-stage variables of the master block, the
\* decision-rule variables among them
fsv_set == first_stage_variables \cup decision_rule_vars

\* initialize_separation: the run context and the surrogate variables after
\* it, and the exception it raised if any
initialize_separation(md, cfg, points, param_vars) ==
  LET \* for master_var in master_blk.component_data_objects(Var, active=True)
      from_master ==
        [v \in SepVarNames |->
           IF md.master_vars[v].present
             THEN [value |-> md.master_vars[v].value,
                   fixed |-> md.vars[v].fixed \/ v \in fsv_set]
             ELSE md.vars[v]]
      \* for c in second_stage_variables: unfix if order != 0 else fix
      second_stage ==
        [v \in SepVarNames |->
           IF v \in second_stage_variables
             THEN [from_master[v] EXCEPT !.fixed = static_decision_rule(cfg)]
             ELSE from_master[v]]
      \* if order == 0: decision_rule_eqns deactivated, decision_rule_vars fixed
      decision_rule ==
        [v \in SepVarNames |->
           IF static_decision_rule(cfg) /\ v \in decision_rule_vars
             THEN [second_stage[v] EXCEPT !.fixed = TRUE]
             ELSE second_stage[v]]
      eqns ==
        [k \in 1..Len(md.decision_rule_eqns) |->
           md.decision_rule_eqns[k] /\ ~static_decision_rule(cfg)]
  IN  [model_data |-> [md EXCEPT !.vars = decision_rule,
                                 !.decision_rule_eqns = eqns],
       uncertain_param_vars |->
         IF cfg.geometry # "discrete"
           THEN points[block_num(cfg, md) + 1]
           ELSE param_vars,
       error |-> IF any_h_x_q_active(md) THEN "AttributeError" ELSE "none"]

\* nlp_model.solutions.load_from(results): every variable that is not fixed
\* takes its value in the solution
load_from(md) ==
  [md EXCEPT !.vars =
     [v \in SepVarNames |->
        IF md.vars[v].fixed THEN md.vars[v]
        ELSE [md.vars[v] EXCEPT !.value = 2]]]

\* the constraints of the chunk left active
chunk_left_active(md, chunk) ==
  [md EXCEPT
     !.uncertainty_set_constraint =
       [k \in 1..Len(md.uncertainty_set_constraint) |->
          IF \E d \in 1..Len(chunk) : chunk[d] + 1 = k
            THEN TRUE ELSE md.uncertainty_set_constraint[k]],
     !.param_vars_fixed =
       [d \in 1..NumParams |-> d <= Len(chunk) \/ md.param_vars_fixed[d]]]

\* for idx, con in enumerate(chunk): con.activate();
\* uncertain_param_vars[idx].fix(con.lower); con.deactivate()
chunk_fixed(md, chunk) ==
  [md EXCEPT
     !.uncertainty_set_constraint =
       [k \in 1..Len(md.uncertainty_set_constraint) |->
          IF \E d \in 1..Len(chunk) : chunk[d] + 1 = k
            THEN FALSE ELSE md.uncertainty_set_constraint[k]],
     !.param_vars_fixed =
       [d \in 1..NumParams |-> d <= Len(chunk) \/ md.param_vars_fixed[d]]]

\* for con in chunk: con.deactivate()
chunk_deactivated(md, chunk) ==
  [md EXCEPT
     !.uncertainty_set_constraint =
       [k \in 1..Len(md.uncertainty_set_constraint) |->
          IF \E d \in 1..Len(chunk) : chunk[d] + 1 = k
            THEN FALSE ELSE md.uncertainty_set_constraint[k]]]

\* the list left as it was
conlist_untouched(md) == md

\* conlist.deactivate()
conlist_deactivate(md) ==
  [md EXCEPT !.uncertainty_set_constraint =
     [k \in 1..Len(md.uncertainty_set_constraint) |-> FALSE]]

\* the state after make_separation_problem: every objective deactivated,
\* the surrogate variables at the nominal point, which is in the master
Init ==
  /\ config \in Configs
  /\ config.geometry = "continuous" => config.scenarios = [s \in 1..NumScenarios |-> scenario_point(s)]
  /\ Len(config.backup_local_solvers) = Len(config.backup_global_solvers)
  /\ objective_active = [j \in Cons |-> FALSE]
  /\ uncertain_param_vars = scenario_point(1)
  /\ elapsed = 0
  /\ points_added_to_master = <<scenario_point(1)>>
  /\ master_nominal = [j \in Cons |-> 0]
  /\ master_nominal_scenario_value = 0
  /\ pc = "idle"
  /\ cycle_i = 1
  /\ val_i = 1
  /\ perf_i = 1
  /\ solve_data_list = <<>>
  /\ exit_separation_loop = FALSE
  /\ returned = NoReturn
  /\ chunk_i = 1
  /\ discrete_list = <<>>
  /\ opt_i = 1
  /\ solve_data = NoResult
  /\ invoked = <<>>
  /\ attempted = <<>>
  /\ budget_bins = {}
  /\ solver_options = default_solver_options(config)
  /\ at_entry = [config |-> config, solver_options |-> solver_options]
  /\ sep_model = make_separation_objective_functions(StandardConstraints)
  /\ model_data = default_model_data(config)
  /\ solve_times = NoSolveTimes
  /\ GlobalSets = [name \in {"UnindexedComponent_set"} |-> 1]
  /\ instances = <<[name |-> "UnindexedComponent_set",
                   local_name |-> "UnindexedComponent_set"]>>
  /\ pickled = {}
  /\ outcome = NoOutcome

\* ------------------------------------------------ solve_separation_problem

actual == actual_sep_priority_dict(config.separation_priority_order)

cycle == separation_cycle(config.bypass_local_separation,
                          config.bypass_global_separation)

is_global == cycle[cycle_i]

bins == sorted_unique_priorities(actual)

bin == perf_constraints(actual, bins[val_i])

perf_con == bin[perf_i]

\* [solver] + deepcopy(config.backup_..._solvers); the primary solver is 0
backup_solvers ==
  <<0>> \o (IF is_global THEN config.backup_global_solvers
                         ELSE config.backup_local_solvers)

\* the master has been solved: the call starts at the first tier and bin
solve_separation_problem_begin ==
  /\ pc = "idle"
  /\ master_nominal' \in [Cons -> NominalValues]
  /\ pc' = "perf_con"
  /\ UNCHANGED <<config, objective_active, uncertain_param_vars, elapsed,
                 points_added_to_master, master_nominal_scenario_value,
                 frame_vars, solver_options, at_entry, sep_model, model_data,
                 solve_times, GlobalSets, instances, pickled, outcome>>

\* the objective lookup and the nominal value lookup both precede the solve
solve_regardless(obj_in_map, nominal_found) == "solve"

\* what the separation of one constraint comes to: objectives_map[perf_con]
\* and the value of the constraint in master_nominal_scenario are looked up
\* before the solve is dispatched
dispatch(obj_in_map, nominal_found) ==
  IF ~obj_in_map THEN "no_objective"
  ELSE IF ~nominal_found THEN "no_nominal_value"
  ELSE "solve"

\* one constraint of the bin: its objective is activated, the nominal value
\* fetched, and the solve dispatched on the geometry
separate_perf_con ==
  /\ pc = "perf_con"
  /\ \E nominal_found \in BOOLEAN :
       LET obj_in_map ==
             sep_model.performance_constraints[perf_con] \in sep_model.map_obj_to_constr
           d == dispatch(obj_in_map, nominal_found)
       IN  /\ attempted' = Append(attempted,
                                  [is_global |-> is_global, perf_con |-> perf_con,
                                   budget_bins |-> budget_bins,
                                   obj_in_map |-> obj_in_map,
                                   nominal_found |-> nominal_found])
           /\ objective_active' =
                IF d = "no_objective" THEN objective_active
                ELSE [objective_active EXCEPT ![perf_con] = TRUE]
           /\ IF d # "solve"
                THEN \* raise ValueError
                     /\ pc' = "raised"
                     /\ returned' = [NoReturn EXCEPT !.kind = "ValueError"]
                     /\ UNCHANGED <<master_nominal_scenario_value, chunk_i,
                                    discrete_list, opt_i, solve_data, invoked>>
                ELSE /\ master_nominal_scenario_value' = master_nominal[perf_con]
                     /\ IF is_discrete
                          THEN /\ pc' = "discrete"
                               /\ chunk_i' = 1
                               /\ discrete_list' = <<>>
                               /\ UNCHANGED <<opt_i, solve_data, invoked>>
                          ELSE /\ pc' = "call"
                               /\ opt_i' = 1
                               /\ solve_data' = NoResult
                               /\ invoked' = <<>>
                               /\ UNCHANGED <<chunk_i, discrete_list>>
                     /\ UNCHANGED returned
  /\ UNCHANGED <<config, uncertain_param_vars, elapsed, points_added_to_master,
                 master_nominal, cycle_i, val_i, perf_i, solve_data_list,
                 exit_separation_loop, budget_bins, solver_options, at_entry,
                 sep_model, model_data,
                 solve_times, GlobalSets, instances, pickled, outcome>>

\* --------------------------------------------------- solver_call_separation

\* the points a continuous solve may load into the surrogate variables
ContinuousPoints == {scenario_point(1)}

\* the elapsed-time reading after a solve that took dt; the reading is only
\* ever compared with a configured time_limit
elapsed_after(dt) ==
  IF config.time_limit = 0 THEN elapsed
  ELSE IF elapsed + dt >= MaxElapsed THEN MaxElapsed ELSE elapsed + dt

\* the time a solve takes: with no time limit the elapsed time is not
\* followed and every solve is taken to last one unit
solve_durations == IF config.time_limit = 0 THEN {1} ELSE 0..1

\* the budget counted as reached only once it is exceeded
time_limit_passed(now) ==
  config.time_limit # 0 /\ now > config.time_limit

\* if config.time_limit: if elapsed >= config.time_limit
time_limit_reached(now) ==
  config.time_limit # 0 /\ now >= config.time_limit

\* the same solver tried again
same_opt(i) == i

\* the position of the solver to try after position i
next_opt(i) == i + 1

\* solver_call_separation returns rv with the result filled in
constraints == constraints_left(config.scenarios, points_added_to_master)

\* the run context once solver_call_separation has returned to its caller:
\* discrete_solve deactivates the constraints of the chunk again
after_call(md) ==
  IF is_discrete THEN chunk_deactivated(md, chunk_of(constraints, chunk_i))
  ELSE md

\* the export written whenever a directory is configured
export_if_directory(cfg) == cfg.subproblem_file_directory # None

\* if save_dir and config.keepfiles: the model is written and output_logger
\* called
export_written(cfg) ==
  cfg.subproblem_file_directory # None /\ cfg.keepfiles

solver_call_returns(result, rv) ==
  IF is_discrete
    THEN /\ discrete_list' = Append(discrete_list, result)
         /\ chunk_i' = chunk_i + 1
         /\ pc' = "chunk"
         /\ UNCHANGED <<solve_data_list, exit_separation_loop>>
    ELSE /\ solve_data_list' = Append(solve_data_list, <<result>>)
         /\ exit_separation_loop' = rv
         /\ pc' = "after_solve"
         /\ UNCHANGED <<discrete_list, chunk_i>>

\* the list config holds for the tier
config_backups == IF is_global THEN config.backup_global_solvers
                  ELSE config.backup_local_solvers

\* solver_call_separation is entered: the backup list is copied and the
\* primary solver inserted at its head; the loop starts at the first solver
solver_call_separation_begin ==
  /\ pc = "call"
  /\ LET copy == deepcopy(config_backups)
         inserted == <<0>> \o copy.items
     IN  config' = IF ~copy.shared THEN config
                   ELSE IF is_global
                     THEN [config EXCEPT !.backup_global_solvers = inserted]
                   ELSE [config EXCEPT !.backup_local_solvers = inserted]
  /\ at_entry' = [config |-> config, solver_options |-> solver_options]
  /\ opt_i' = 1
  /\ invoked' = <<>>
  /\ LET init == initialize_separation(model_data, config,
                                       points_added_to_master,
                                       uncertain_param_vars)
     IN  /\ model_data' = init.model_data
         /\ uncertain_param_vars' = init.uncertain_param_vars
         /\ IF init.error # "none"
              THEN /\ pc' = "raised"
                   /\ returned' = [NoReturn EXCEPT !.kind = init.error]
              ELSE /\ pc' = "opt"
                   /\ UNCHANGED returned
  /\ UNCHANGED <<objective_active, elapsed,
                 points_added_to_master, master_nominal,
                 master_nominal_scenario_value, cycle_i, val_i, perf_i,
                 solve_data_list, exit_separation_loop, chunk_i,
                 discrete_list, solve_data, attempted, budget_bins,
                 solver_options, sep_model,
                 solve_times, GlobalSets, instances, pickled, outcome>>

\* the max-time setting of the solver object at position i of backup_solvers
opt_setting(i) ==
  IF i = 1
    THEN IF is_global THEN solver_options.global_solver
                      ELSE solver_options.local_solver
  ELSE IF is_global THEN solver_options.backup_global_solvers[i - 1]
  ELSE solver_options.backup_local_solvers[i - 1]

\* the setting of that solver once adjust_solver_time_settings, the solve
\* and revert_solver_max_time_adjustment (in the finally clause) have run
setting_after_solve(i) ==
  LET orig == opt_setting(i)
  IN  revert_solver_max_time_adjustment(
        adjust_solver_time_settings(orig, config.time_limit, elapsed),
        orig.max_time, orig.custom_setting_present, config.time_limit)

\* config's solver objects after the solver at position i has been used: the
\* primary solver is config's own object, a backup is a copy
solver_options_after(i) ==
  IF i = 1
    THEN IF is_global
           THEN [solver_options EXCEPT !.global_solver = setting_after_solve(i)]
           ELSE [solver_options EXCEPT !.local_solver = setting_after_solve(i)]
  ELSE IF ~deepcopy(config_backups).shared THEN solver_options
  ELSE IF is_global
    THEN [solver_options EXCEPT !.backup_global_solvers[i - 1] = setting_after_solve(i)]
  ELSE [solver_options EXCEPT !.backup_local_solvers[i - 1] = setting_after_solve(i)]

\* one pass of `for opt in backup_solvers`: the solver is invoked and returns
\* results; the loop continues, or the call returns
opt_solve ==
  /\ pc = "opt"
  /\ opt_i <= Len(backup_solvers)
  /\ \E tc \in SolverStatuses, dt \in solve_durations :
       LET now == elapsed_after(dt)
           sd == [solve_data EXCEPT !.termination_condition = tc,
                                    !.fixed_point = uncertain_param_vars,
                                    !.solve_time = dt,
                                    !.attempt = Len(attempted)]
       IN  /\ invoked' = Append(invoked, [opt |-> backup_solvers[opt_i],
                                          termination_condition |-> tc])
           /\ elapsed' = now
           /\ solver_options' = solver_options_after(opt_i)
           /\ budget_bins' = IF time_limit_reached(now)
                               THEN budget_bins \cup {actual[perf_con]}
                               ELSE budget_bins
           /\ IF time_limit_reached(now)
                THEN /\ solve_data' = [sd EXCEPT !.found_violation = FALSE,
                                                 !.time_limit_reached = TRUE,
                                                 !.stop_signal = TRUE]
                     /\ solver_call_returns(solve_data', TRUE)
                     /\ model_data' = after_call(model_data)
                     /\ UNCHANGED <<opt_i, uncertain_param_vars>>
              ELSE IF tc \in acceptable_conditions(is_global)
                THEN /\ \E values \in [Cons -> RawValues] :
                          \E point \in (IF is_discrete THEN {uncertain_param_vars}
                                                      ELSE ContinuousPoints) :
                            /\ uncertain_param_vars' = point
                            /\ solve_data' = update_solve_data_violations(
                                               sd, values, master_nominal_scenario_value,
                                               config.robust_feasibility_tolerance,
                                               objective_active, point)
                     /\ solver_call_returns(solve_data', FALSE)
                     /\ model_data' = after_call(load_from(model_data))
                     /\ UNCHANGED opt_i
              ELSE IF next_opt(opt_i) <= Len(backup_solvers)
                THEN /\ solve_data' = sd
                     /\ opt_i' = next_opt(opt_i)
                     /\ UNCHANGED <<pc, uncertain_param_vars, solve_data_list,
                                    exit_separation_loop, discrete_list, chunk_i,
                                    model_data>>
              ELSE /\ solve_data' = [sd EXCEPT !.found_violation = FALSE,
                                               !.stop_signal = TRUE,
                                               !.exported = export_written(config)]
                   /\ solver_call_returns(solve_data', TRUE)
                   /\ model_data' = after_call(model_data)
                   /\ UNCHANGED <<opt_i, uncertain_param_vars>>
  /\ UNCHANGED <<config, objective_active, points_added_to_master, master_nominal,
                 master_nominal_scenario_value, cycle_i, val_i, perf_i, returned,
                 attempted, at_entry, sep_model,
                 solve_times, GlobalSets, instances, pickled, outcome>>

\* the evaluation error swallowed: the result is kept, without a violation
opt_solve_value_error_skipped ==
  /\ pc = "opt"
  /\ opt_i <= Len(backup_solvers)
  /\ \E tc \in acceptable_conditions(is_global), dt \in 0..1 :
       /\ ~time_limit_reached(elapsed_after(dt))
       /\ invoked' = Append(invoked, [opt |-> backup_solvers[opt_i],
                                      termination_condition |-> tc])
       /\ elapsed' = elapsed_after(dt)
       /\ solve_data' = [solve_data EXCEPT !.termination_condition = tc,
                                           !.fixed_point = uncertain_param_vars]
  /\ solver_call_returns(solve_data', FALSE)
  /\ solver_options' = solver_options_after(opt_i)
  /\ model_data' = after_call(load_from(model_data))
  /\ UNCHANGED <<config, objective_active, uncertain_param_vars,
                 points_added_to_master, master_nominal,
                 master_nominal_scenario_value, cycle_i, val_i, perf_i,
                 returned, opt_i, attempted, budget_bins, at_entry, sep_model,
                 solve_times, GlobalSets, instances, pickled, outcome>>

\* the solver ends with an acceptable status within the time budget, the
\* solution is loaded, and value(o.expr) raises for some objective: the
\* variable values are logged and ArithmeticError raised
opt_solve_value_raises ==
  /\ pc = "opt"
  /\ opt_i <= Len(backup_solvers)
  /\ \E tc \in acceptable_conditions(is_global), dt \in 0..1 :
       /\ ~time_limit_reached(elapsed_after(dt))
       /\ invoked' = Append(invoked, [opt |-> backup_solvers[opt_i],
                                      termination_condition |-> tc])
       /\ elapsed' = elapsed_after(dt)
       /\ solve_data' = [solve_data EXCEPT !.termination_condition = tc,
                                           !.fixed_point = uncertain_param_vars,
                                           !.violating_param_realization =
                                              uncertain_param_vars]
  /\ solver_options' = solver_options_after(opt_i)
  /\ model_data' = load_from(model_data)
  /\ pc' = "raised"
  /\ returned' = [NoReturn EXCEPT !.kind = "ArithmeticError", !.logged = TRUE]
  /\ UNCHANGED <<config, objective_active, uncertain_param_vars,
                 points_added_to_master, master_nominal,
                 master_nominal_scenario_value, cycle_i, val_i, perf_i,
                 solve_data_list, exit_separation_loop, chunk_i, discrete_list,
                 opt_i, attempted, budget_bins, at_entry, sep_model,
                 solve_times, GlobalSets, instances, pickled, outcome>>

\* the error swallowed and the next solver tried
opt_solve_error_skipped ==
  /\ pc = "opt"
  /\ opt_i <= Len(backup_solvers)
  /\ invoked' = Append(invoked, [opt |-> backup_solvers[opt_i],
                                 termination_condition |-> "ApplicationError"])
  /\ solver_options' = solver_options_after(opt_i)
  /\ opt_i' = opt_i + 1
  /\ UNCHANGED <<config, objective_active, uncertain_param_vars, elapsed,
                 points_added_to_master, master_nominal,
                 master_nominal_scenario_value, pc, cycle_i, val_i, perf_i,
                 solve_data_list, exit_separation_loop, returned, chunk_i,
                 discrete_list, solve_data, attempted, budget_bins, at_entry,
                 sep_model, model_data,
                 solve_times, GlobalSets, instances, pickled, outcome>>

\* opt.solve raises ApplicationError: logged and re-raised
opt_solve_raises ==
  /\ pc = "opt"
  /\ opt_i <= Len(backup_solvers)
  /\ invoked' = Append(invoked, [opt |-> backup_solvers[opt_i],
                                 termination_condition |-> "ApplicationError"])
  /\ solver_options' = solver_options_after(opt_i)
  /\ pc' = "raised"
  /\ returned' = [NoReturn EXCEPT !.kind = "ApplicationError", !.logged = TRUE]
  /\ UNCHANGED <<config, objective_active, uncertain_param_vars, elapsed,
                 points_added_to_master, master_nominal,
                 master_nominal_scenario_value, cycle_i, val_i, perf_i,
                 solve_data_list, exit_separation_loop, chunk_i, discrete_list,
                 opt_i, solve_data, attempted,
                 budget_bins, at_entry, sep_model, model_data,
                 solve_times, GlobalSets, instances, pickled, outcome>>

\* ----------------------------------------------------------- discrete_solve

\* discrete_solve is entered: the list of results is empty and the
\* uncertainty-set constraints are deactivated
discrete_solve_begin ==
  /\ pc = "discrete"
  /\ model_data' = conlist_deactivate(model_data)
  /\ chunk_i' = 1
  /\ discrete_list' = <<>>
  /\ pc' = "chunk"
  /\ UNCHANGED <<config, objective_active, uncertain_param_vars, elapsed,
                 points_added_to_master, master_nominal,
                 master_nominal_scenario_value, cycle_i, val_i, perf_i,
                 solve_data_list, exit_separation_loop, returned, opt_i,
                 solve_data, invoked, attempted, budget_bins, solver_options,
                 at_entry, sep_model,
                 solve_times, GlobalSets, instances, pickled, outcome>>

\* one chunk: the surrogate variables are fixed to the scenario's
\* coordinates and solver_call_separation is entered
discrete_solve_chunk ==
  /\ pc = "chunk"
  /\ chunk_i <= num_chunks(constraints)
  /\ model_data' = chunk_fixed(model_data, chunk_of(constraints, chunk_i))
  /\ uncertain_param_vars' =
       fix_to_chunk(uncertain_param_vars, config.scenarios,
                    chunk_of(constraints, chunk_i))
  /\ opt_i' = 1
  /\ solve_data' = NoResult
  /\ invoked' = <<>>
  /\ pc' = "call"
  /\ UNCHANGED <<config, objective_active, elapsed, points_added_to_master,
                 master_nominal, master_nominal_scenario_value, cycle_i, val_i,
                 perf_i, solve_data_list, exit_separation_loop, returned,
                 chunk_i, discrete_list, attempted,
                 budget_bins, solver_options, at_entry, sep_model,
                 solve_times, GlobalSets, instances, pickled, outcome>>

\* all(s.termination_condition in acceptable for every result so far)
all_terminated_in(list, acceptable) ==
  \A i \in 1..Len(list) : \A k \in 1..Len(list[i]) :
    list[i][k].termination_condition \in acceptable

\* the exit flag were it taken from what solver_call_separation returned
discrete_exit_on_return(list, global) ==
  \E i \in 1..Len(list) : \E k \in 1..Len(list[i]) : list[i][k].stop_signal

\* exit_separation_loop after discrete_solve
discrete_exit(list, global) ==
  ~ \/ all_terminated_in(list, globally_acceptable)
    \/ (~global /\ all_terminated_in(list, locally_acceptable))

\* discrete_solve returns its list, which the scheduler appends
discrete_solve_returns ==
  /\ pc = "chunk"
  /\ chunk_i > num_chunks(constraints)
  /\ solve_data_list' = Append(solve_data_list, discrete_list)
  /\ exit_separation_loop' = discrete_exit(solve_data_list', is_global)
  /\ pc' = "after_solve"
  /\ UNCHANGED <<config, objective_active, uncertain_param_vars, elapsed,
                 points_added_to_master, master_nominal,
                 master_nominal_scenario_value, cycle_i, val_i, perf_i, returned,
                 chunk_i, discrete_list, opt_i, solve_data, invoked, attempted,
                 budget_bins, solver_options, at_entry, sep_model, model_data,
                 solve_times, GlobalSets, instances, pickled, outcome>>

\* ------------------------------------- solve_separation_problem, continued

any_found_violation(list) ==
  \E i \in 1..Len(list) : \E k \in 1..Len(list[i]) : list[i][k].found_violation

\* after the solve of one constraint: return on exit_separation_loop, else
\* deactivate the objective and go on to the next constraint, bin, or to
\* the end of the tier
after_solve ==
  /\ pc = "after_solve"
  /\ IF exit_separation_loop
       THEN /\ pc' = "returned"
            /\ returned' = [NoReturn EXCEPT !.kind = "return", !.is_global = is_global]
            /\ UNCHANGED <<objective_active, val_i, perf_i>>
       ELSE /\ objective_active' = [objective_active EXCEPT ![perf_con] = FALSE]
            /\ UNCHANGED returned
            /\ IF perf_i < Len(bin)
                 THEN /\ perf_i' = perf_i + 1
                      /\ pc' = "perf_con"
                      /\ UNCHANGED val_i
               ELSE IF val_i < Len(bins)
                 THEN /\ val_i' = val_i + 1
                      /\ perf_i' = 1
                      /\ pc' = "perf_con"
               ELSE /\ pc' = "do_we_return"
                    /\ UNCHANGED <<val_i, perf_i>>
  /\ solve_times' = solve_times_after(solve_times, solve_data_list, is_global,
                                      is_discrete)
  /\ UNCHANGED <<config, uncertain_param_vars, elapsed, points_added_to_master,
                 master_nominal, master_nominal_scenario_value, cycle_i,
                 solve_data_list, exit_separation_loop, chunk_i, discrete_list,
                 opt_i, solve_data, invoked, attempted,
                 budget_bins, solver_options, at_entry, sep_model, model_data,
                 GlobalSets, instances, pickled, outcome>>

\* after the loop over the bins: the worst case is picked, and the call
\* returns if a violation was found or no tier is left
do_we_return ==
  /\ pc = "do_we_return"
  /\ LET r == get_index_of_max_violation(solve_data_list, is_discrete)
     IN  IF r.error # "none"
           THEN /\ pc' = "raised"
                /\ returned' = [NoReturn EXCEPT !.kind = r.error, !.idx_i = r.idx_i]
                /\ UNCHANGED <<cycle_i, val_i, perf_i, solve_data_list>>
         ELSE IF any_found_violation(solve_data_list)
           THEN /\ pc' = "returned"
                /\ returned' =
                     [kind |-> "return",
                      violating_realizations |->
                        solve_data_list[r.idx_i][r.idx_j].violating_param_realization,
                      violations |->
                        solve_data_list[r.idx_i][r.idx_j].list_of_scaled_violations,
                      is_global |-> is_global,
                      idx_i |-> r.idx_i,
                      idx_j |-> r.idx_j,
                      logged |-> FALSE]
                /\ UNCHANGED <<cycle_i, val_i, perf_i, solve_data_list>>
         ELSE IF cycle_i < Len(cycle)
           THEN /\ cycle_i' = cycle_i + 1
                /\ val_i' = 1
                /\ perf_i' = 1
                /\ solve_data_list' = fresh_list(solve_data_list)
                /\ pc' = "perf_con"
                /\ UNCHANGED returned
         ELSE /\ pc' = "returned"
              /\ returned' = [NoReturn EXCEPT !.kind = "return", !.is_global = is_global]
              /\ UNCHANGED <<cycle_i, val_i, perf_i, solve_data_list>>
  /\ UNCHANGED <<config, objective_active, uncertain_param_vars, elapsed,
                 points_added_to_master, master_nominal,
                 master_nominal_scenario_value, exit_separation_loop, chunk_i,
                 discrete_list, opt_i, solve_data, invoked, attempted,
                 budget_bins, solver_options, at_entry, sep_model, model_data,
                 solve_times, GlobalSets, instances, pickled, outcome>>

\* the caller takes the outcome; a violating scenario of a discrete set is
\* added to the master problem before the next call
caller_resumes ==
  /\ pc \in {"returned", "raised"}
  /\ pc' = "idle"
  /\ points_added_to_master' =
       IF is_discrete /\ returned.violating_realizations # <<>>
         THEN Append(points_added_to_master, returned.violating_realizations)
         ELSE points_added_to_master
  /\ cycle_i' = 1
  /\ val_i' = 1
  /\ perf_i' = 1
  /\ solve_data_list' = <<>>
  /\ exit_separation_loop' = FALSE
  /\ returned' = NoReturn
  /\ chunk_i' = 1
  /\ discrete_list' = <<>>
  /\ opt_i' = 1
  /\ solve_data' = NoResult
  /\ invoked' = <<>>
  /\ attempted' = <<>>
  /\ budget_bins' = {}
  /\ solve_times' = NoSolveTimes
  /\ UNCHANGED <<config, objective_active, uncertain_param_vars, elapsed,
                 master_nominal, master_nominal_scenario_value, solver_options,
                 at_entry, sep_model, model_data,
                 GlobalSets, instances, pickled, outcome>>

Next ==
  \/ solve_separation_problem_begin
  \/ separate_perf_con
  \/ solver_call_separation_begin
  \/ opt_solve
  \/ opt_solve_raises
  \/ opt_solve_value_raises
  \/ discrete_solve_begin
  \/ discrete_solve_chunk
  \/ discrete_solve_returns
  \/ after_solve
  \/ do_we_return
  \/ caller_resumes

Spec == Init /\ [][Next]_vars

\* ------------------------------------------- solver_call_separation alone

\* a configuration in which both tiers run and no priority is configured
BaseConfig ==
  [geometry |-> "continuous",
   separation_priority_order |-> <<>>,
   bypass_local_separation |-> FALSE,
   bypass_global_separation |-> FALSE,
   time_limit |-> 0,
   robust_feasibility_tolerance |-> Unit,
   backup_local_solvers |-> <<>>,
   backup_global_solvers |-> <<>>,
   scenarios |-> [s \in 1..NumScenarios |-> scenario_point(s)],
   objective_focus |-> "nominal",
   decision_rule_order |-> 0,
   keepfiles |-> FALSE,
   subproblem_file_directory |-> None]

\* solver_call_separation is entered (initialize_separation has run): any
\* tier, any constraint being separated, its objective active and possibly
\* others left active, any backup lists, any elapsed time and nominal value,
\* the h(x,q) constraint deactivated or left active
InitSolverCall ==
  /\ \E g \in {"continuous", "discrete"}, tl \in {0, MaxElapsed},
        nl \in 0..MaxBackups, ng \in 0..MaxBackups, tol \in {0, Unit} :
       config = [BaseConfig EXCEPT !.geometry = g, !.time_limit = tl,
                                   !.robust_feasibility_tolerance = tol,
                                   !.backup_local_solvers = Iota(nl),
                                   !.backup_global_solvers = Iota(ng)]
  /\ cycle_i \in 1..2
  /\ val_i = 1
  /\ perf_i \in Cons
  /\ objective_active \in [Cons -> BOOLEAN]
  /\ objective_active[perf_i]
  /\ uncertain_param_vars \in {scenario_point(1), scenario_point(2)}
  /\ is_discrete => uncertain_param_vars = scenario_point(1)
  /\ elapsed \in 0..MaxElapsed
  /\ config.time_limit = 0 => elapsed = 0
  /\ points_added_to_master = <<scenario_point(1)>>
  /\ \E v \in NominalValues :
       /\ master_nominal = [j \in Cons |-> v]
       /\ master_nominal_scenario_value = v
  /\ pc = "call"
  /\ solve_data_list = <<>>
  /\ exit_separation_loop = FALSE
  /\ returned = NoReturn
  /\ chunk_i = 1
  /\ discrete_list = <<>>
  /\ opt_i = 1
  /\ solve_data = NoResult
  /\ invoked = <<>>
  /\ attempted = <<[is_global |-> cycle_i = 2, perf_con |-> perf_i,
                    budget_bins |-> {}, obj_in_map |-> TRUE,
                    nominal_found |-> TRUE]>>
  /\ budget_bins = {}
  /\ \E primary \in Settings :
       /\ config.time_limit = 0 => primary = NoSetting
       /\ solver_options = [default_solver_options(config) EXCEPT
                              !.local_solver = primary, !.global_solver = primary]
  /\ at_entry = [config |-> config, solver_options |-> solver_options]
  /\ sep_model = make_separation_objective_functions(StandardConstraints)
  /\ \E h \in BOOLEAN :
       model_data =
         [(IF is_discrete
             THEN chunk_fixed(conlist_deactivate(default_model_data(config)),
                              chunk_of(constraints, 1))
             ELSE default_model_data(config))
          EXCEPT !.h_x_q_constraints = <<h>>]
  /\ solve_times = NoSolveTimes
  /\ GlobalSets = [name \in {"UnindexedComponent_set"} |-> 1]
  /\ instances = <<[name |-> "UnindexedComponent_set",
                   local_name |-> "UnindexedComponent_set"]>>
  /\ pickled = {}
  /\ outcome = NoOutcome

NextSolverCall ==
  \/ solver_call_separation_begin
  \/ opt_solve
  \/ opt_solve_raises
  \/ opt_solve_value_raises

SpecSolverCall == InitSolverCall /\ [][NextSolverCall]_vars

\* InitSolverCall with what does not bear on the order of the solvers held
\* fixed: the tolerance, the nominal value, the objectives left active, the
\* point of the surrogates
InitSolverCallFair ==
  /\ InitSolverCall
  /\ config.robust_feasibility_tolerance = Unit
  /\ master_nominal_scenario_value = 0
  /\ objective_active = [j \in Cons |-> j = perf_i]
  /\ uncertain_param_vars = scenario_point(1)

\* every solver invoked hands control back: solve() is a blocking call that
\* returns results or raises
SpecSolverCallFair ==
  InitSolverCallFair /\ [][NextSolverCall]_vars /\ WF_vars(NextSolverCall)

\* ------------------------------------- the export on solver exhaustion

\* config.subproblem_file_directory: None, or a path (written 1)
SaveDirs == {None} \cup {1}

\* solver_call_separation is entered (initialize_separation has run) for a
\* continuous set with the objective of the constraint active: either tier,
\* any backup lists, any elapsed time, keepfiles set or not and the
\* directory given or not
InitExport ==
  /\ \E tl \in {0, MaxElapsed}, nl \in 0..MaxBackups, ng \in 0..MaxBackups,
        keep \in BOOLEAN, save_dir \in SaveDirs :
       config = [BaseConfig EXCEPT !.time_limit = tl,
                                   !.backup_local_solvers = Iota(nl),
                                   !.backup_global_solvers = Iota(ng),
                                   !.keepfiles = keep,
                                   !.subproblem_file_directory = save_dir]
  /\ cycle_i \in 1..2
  /\ val_i = 1
  /\ perf_i \in Cons
  /\ objective_active = [j \in Cons |-> j = perf_i]
  /\ uncertain_param_vars = scenario_point(1)
  /\ elapsed \in 0..MaxElapsed
  /\ config.time_limit = 0 => elapsed = 0
  /\ points_added_to_master = <<scenario_point(1)>>
  /\ master_nominal = [j \in Cons |-> 0]
  /\ master_nominal_scenario_value = 0
  /\ pc = "call"
  /\ solve_data_list = <<>>
  /\ exit_separation_loop = FALSE
  /\ returned = NoReturn
  /\ chunk_i = 1
  /\ discrete_list = <<>>
  /\ opt_i = 1
  /\ solve_data = NoResult
  /\ invoked = <<>>
  /\ attempted = <<[is_global |-> cycle_i = 2, perf_con |-> perf_i,
                    budget_bins |-> {}, obj_in_map |-> TRUE,
                    nominal_found |-> TRUE]>>
  /\ budget_bins = {}
  /\ solver_options = default_solver_options(config)
  /\ at_entry = [config |-> config, solver_options |-> solver_options]
  /\ sep_model = make_separation_objective_functions(StandardConstraints)
  /\ model_data =
       [default_model_data(config) EXCEPT !.h_x_q_constraints = <<FALSE>>]
  /\ solve_times = NoSolveTimes
  /\ GlobalSets = [name \in {"UnindexedComponent_set"} |-> 1]
  /\ instances = <<[name |-> "UnindexedComponent_set",
                   local_name |-> "UnindexedComponent_set"]>>
  /\ pickled = {}
  /\ outcome = NoOutcome

NextExport ==
  \/ solver_call_separation_begin
  \/ opt_solve
  \/ opt_solve_raises
  \/ opt_solve_value_raises

SpecExport == InitExport /\ [][NextExport]_vars

\* ----------------------------------------------- initialize_separation alone

\* the largest iteration of the run that is modelled
MaxIteration == 1

\* solver_call_separation is entered at any iteration of the run, one point
\* in the master for each iteration so far: either objective focus, geometry
\* and decision rule order, the variables of the separation model fixed or
\* not and the decision-rule equation active or not as earlier calls left
\* them, a first-stage variable possibly absent from the master block
InitInitialize ==
  /\ \E g \in {"continuous", "discrete"}, focus \in {"nominal", "worst_case"},
        order \in 0..1 :
       config = [BaseConfig EXCEPT !.geometry = g, !.objective_focus = focus,
                                   !.decision_rule_order = order]
  /\ cycle_i = 1
  /\ val_i = 1
  /\ perf_i = 1
  /\ objective_active = [j \in Cons |-> j = perf_i]
  /\ uncertain_param_vars \in {scenario_point(1), scenario_point(2)}
  /\ elapsed = 0
  /\ master_nominal = [j \in Cons |-> 0]
  /\ master_nominal_scenario_value = 0
  /\ pc = "call"
  /\ solve_data_list = <<>>
  /\ exit_separation_loop = FALSE
  /\ returned = NoReturn
  /\ chunk_i = 1
  /\ discrete_list = <<>>
  /\ opt_i = 1
  /\ solve_data = NoResult
  /\ invoked = <<>>
  /\ attempted = <<[is_global |-> FALSE, perf_con |-> perf_i,
                    budget_bins |-> {}, obj_in_map |-> TRUE,
                    nominal_found |-> TRUE]>>
  /\ budget_bins = {}
  /\ solver_options = default_solver_options(config)
  /\ at_entry = [config |-> config, solver_options |-> solver_options]
  /\ sep_model = make_separation_objective_functions(StandardConstraints)
  /\ \E it \in 0..MaxIteration, fixed \in [SepVarNames -> BOOLEAN],
        x2_present \in BOOLEAN, eqn \in BOOLEAN, h \in BOOLEAN :
       /\ points_added_to_master = [k \in 1..(it + 1) |-> scenario_point(k)]
       /\ model_data =
            [default_model_data(config) EXCEPT
               !.iteration = it,
               !.vars = [v \in SepVarNames |->
                           [value |-> IF fixed[v] THEN 0 ELSE 2,
                            fixed |-> fixed[v]]],
               !.master_vars["x2"].present = x2_present,
               !.decision_rule_eqns = <<eqn>>,
               !.h_x_q_constraints = <<h>>]
  /\ solve_times = NoSolveTimes
  /\ GlobalSets = [name \in {"UnindexedComponent_set"} |-> 1]
  /\ instances = <<[name |-> "UnindexedComponent_set",
                   local_name |-> "UnindexedComponent_set"]>>
  /\ pickled = {}
  /\ outcome = NoOutcome

NextInitialize == solver_call_separation_begin

SpecInitialize == InitInitialize /\ [][NextInitialize]_vars

\* --------------------------------------------------- discrete_solve alone

RECURSIVE injective_seqs(_, _)
\* the sequences of at most n distinct elements of S
injective_seqs(S, n) ==
  IF n = 0 THEN {<<>>}
  ELSE LET shorter == injective_seqs(S, n - 1)
       IN  shorter \cup
           {Append(q, x) : q \in {t \in shorter : Len(t) = n - 1}, x \in S}

\* discrete_solve is entered in either tier: any order of the scenario list,
\* any scenarios already in the master, the uncertainty-set constraints as
\* built or as an earlier call left them
InitDiscrete ==
  /\ \E sc \in ScenarioLists, nb \in 0..MaxBackups :
       config = [BaseConfig EXCEPT !.geometry = "discrete", !.scenarios = sc,
                                   !.backup_local_solvers = Iota(nb),
                                   !.backup_global_solvers = Iota(nb)]
  /\ cycle_i \in 1..2
  /\ val_i = 1
  /\ perf_i = 1
  /\ objective_active = [j \in Cons |-> j = 1]
  /\ uncertain_param_vars = scenario_point(1)
  /\ elapsed = 0
  /\ points_added_to_master \in
       {q \in injective_seqs({scenario_point(s) : s \in 1..NumScenarios},
                             NumScenarios) :
          \A a \in 1..Len(q) : \A b \in 1..Len(q) : q[a] = q[b] => a = b}
  /\ master_nominal = [j \in Cons |-> 0]
  /\ master_nominal_scenario_value = 0
  /\ pc = "discrete"
  /\ solve_data_list = <<>>
  /\ exit_separation_loop = FALSE
  /\ returned = NoReturn
  /\ chunk_i = 1
  /\ discrete_list = <<>>
  /\ opt_i = 1
  /\ solve_data = NoResult
  /\ invoked = <<>>
  /\ attempted = <<[is_global |-> cycle_i = 2, perf_con |-> 1,
                    budget_bins |-> {}, obj_in_map |-> TRUE,
                    nominal_found |-> TRUE]>>
  /\ budget_bins = {}
  /\ solver_options = default_solver_options(config)
  /\ at_entry = [config |-> config, solver_options |-> solver_options]
  /\ sep_model = make_separation_objective_functions(StandardConstraints)
  /\ model_data \in {default_model_data(config),
                     conlist_deactivate(default_model_data(config))}
  /\ solve_times = NoSolveTimes
  /\ GlobalSets = [name \in {"UnindexedComponent_set"} |-> 1]
  /\ instances = <<[name |-> "UnindexedComponent_set",
                   local_name |-> "UnindexedComponent_set"]>>
  /\ pickled = {}
  /\ outcome = NoOutcome

NextDiscrete ==
  \/ discrete_solve_begin
  \/ discrete_solve_chunk
  \/ solver_call_separation_begin
  \/ opt_solve
  \/ discrete_solve_returns

SpecDiscrete == InitDiscrete /\ [][NextDiscrete]_vars

\* -------------------------------------- one call over a discrete set alone

\* solve_separation_problem is at the first constraint of its first tier,
\* local or, with the local tier bypassed, global; the discrete set has one
\* scenario more than the base configuration, the nominal scenario is in the
\* master, and there is a time limit or none
InitDiscreteTiers ==
  /\ \E tl \in {0, MaxElapsed}, bl \in BOOLEAN :
       config = [BaseConfig EXCEPT
                   !.geometry = "discrete",
                   !.time_limit = tl,
                   !.bypass_local_separation = bl,
                   !.scenarios = [s \in 1..(NumScenarios + 1) |-> scenario_point(s)]]
  /\ objective_active = [j \in Cons |-> FALSE]
  /\ uncertain_param_vars = scenario_point(1)
  /\ elapsed = 0
  /\ points_added_to_master = <<scenario_point(1)>>
  /\ master_nominal = [j \in Cons |-> 0]
  /\ master_nominal_scenario_value = 0
  /\ pc = "perf_con"
  /\ cycle_i = 1
  /\ val_i = 1
  /\ perf_i = 1
  /\ solve_data_list = <<>>
  /\ exit_separation_loop = FALSE
  /\ returned = NoReturn
  /\ chunk_i = 1
  /\ discrete_list = <<>>
  /\ opt_i = 1
  /\ solve_data = NoResult
  /\ invoked = <<>>
  /\ attempted = <<>>
  /\ budget_bins = {}
  /\ solver_options = default_solver_options(config)
  /\ at_entry = [config |-> config, solver_options |-> solver_options]
  /\ sep_model = make_separation_objective_functions(StandardConstraints)
  /\ model_data = default_model_data(config)
  /\ solve_times = NoSolveTimes
  /\ GlobalSets = [name \in {"UnindexedComponent_set"} |-> 1]
  /\ instances = <<[name |-> "UnindexedComponent_set",
                   local_name |-> "UnindexedComponent_set"]>>
  /\ pickled = {}
  /\ outcome = NoOutcome

\* up to the exit flag of lines 402-416
NextDiscreteTiers ==
  \/ separate_perf_con
  \/ discrete_solve_begin
  \/ discrete_solve_chunk
  \/ solver_call_separation_begin
  \/ opt_solve
  \/ discrete_solve_returns

SpecDiscreteTiers == InitDiscreteTiers /\ [][NextDiscreteTiers]_vars

\* ----------------------------------------------------- global sets alone

\* the module has been imported; no separation run is under way
InitGlobalSet ==
  /\ Init
  /\ config = BaseConfig

NextGlobalSet ==
  \/ construct_instance
  \/ deepcopy_global_set
  \/ pickle_dumps
  \/ pickle_loads
  \/ read_parent
  \/ assign_parent

SpecGlobalSet == InitGlobalSet /\ [][NextGlobalSet]_vars

\* ------------------------------------------- one call, the schedule alone

\* solve_separation_problem is entered once for a continuous set, without a
\* time limit or backup solvers and with both tiers: any priority order
InitSchedule ==
  /\ \E po \in PriorityOrders :
       config = [BaseConfig EXCEPT !.geometry = "continuous",
                                   !.separation_priority_order = po]
  /\ objective_active = [j \in Cons |-> FALSE]
  /\ uncertain_param_vars = scenario_point(1)
  /\ elapsed = 0
  /\ points_added_to_master = <<scenario_point(1)>>
  /\ master_nominal = [j \in Cons |-> 0]
  /\ master_nominal_scenario_value = 0
  /\ pc = "perf_con"
  /\ cycle_i = 1
  /\ val_i = 1
  /\ perf_i = 1
  /\ solve_data_list = <<>>
  /\ exit_separation_loop = FALSE
  /\ returned = NoReturn
  /\ chunk_i = 1
  /\ discrete_list = <<>>
  /\ opt_i = 1
  /\ solve_data = NoResult
  /\ invoked = <<>>
  /\ attempted = <<>>
  /\ budget_bins = {}
  /\ solver_options = default_solver_options(config)
  /\ at_entry = [config |-> config, solver_options |-> solver_options]
  /\ sep_model = make_separation_objective_functions(StandardConstraints)
  /\ model_data = default_model_data(config)
  /\ solve_times = NoSolveTimes
  /\ GlobalSets = [name \in {"UnindexedComponent_set"} |-> 1]
  /\ instances = <<[name |-> "UnindexedComponent_set",
                   local_name |-> "UnindexedComponent_set"]>>
  /\ pickled = {}
  /\ outcome = NoOutcome

NextSchedule ==
  \/ separate_perf_con
  \/ solver_call_separation_begin
  \/ opt_solve
  \/ opt_solve_raises
  \/ opt_solve_value_raises
  \/ after_solve
  \/ do_we_return

SpecSchedule == InitSchedule /\ [][NextSchedule]_vars

\* --------------------------------------------- one call, the tiers alone

\* a model whose last performance constraint has neither bound: the loop
\* of make_separation_objective_functions gives it no objective
UnboundedLast ==
  [StandardConstraints EXCEPT ![NumCons].upper = None]

\* solve_separation_problem is entered once for a continuous set with the
\* default priorities: any choice of tiers, every performance constraint
\* with an objective or the last one without
InitTiers ==
  /\ \E bl \in BOOLEAN, bg \in BOOLEAN :
       config = [BaseConfig EXCEPT !.bypass_local_separation = bl,
                                   !.bypass_global_separation = bg]
  /\ objective_active = [j \in Cons |-> FALSE]
  /\ uncertain_param_vars = scenario_point(1)
  /\ elapsed = 0
  /\ points_added_to_master = <<scenario_point(1)>>
  /\ master_nominal \in [Cons -> NominalValues]
  /\ master_nominal_scenario_value = 0
  /\ pc = "perf_con"
  /\ cycle_i = 1
  /\ val_i = 1
  /\ perf_i = 1
  /\ solve_data_list = <<>>
  /\ exit_separation_loop = FALSE
  /\ returned = NoReturn
  /\ chunk_i = 1
  /\ discrete_list = <<>>
  /\ opt_i = 1
  /\ solve_data = NoResult
  /\ invoked = <<>>
  /\ attempted = <<>>
  /\ budget_bins = {}
  /\ solver_options = default_solver_options(config)
  /\ at_entry = [config |-> config, solver_options |-> solver_options]
  /\ sep_model \in {make_separation_objective_functions(StandardConstraints),
                    make_separation_objective_functions(UnboundedLast)}
  /\ model_data = default_model_data(config)
  /\ solve_times = NoSolveTimes
  /\ GlobalSets = [name \in {"UnindexedComponent_set"} |-> 1]
  /\ instances = <<[name |-> "UnindexedComponent_set",
                   local_name |-> "UnindexedComponent_set"]>>
  /\ pickled = {}
  /\ outcome = NoOutcome

NextTiers ==
  \/ separate_perf_con
  \/ solver_call_separation_begin
  \/ opt_solve
  \/ opt_solve_raises
  \/ opt_solve_value_raises
  \/ after_solve
  \/ do_we_return

SpecTiers == InitTiers /\ [][NextTiers]_vars

\* ---------------------------------------- the separation model is built

\* the lists of constraints a model may hold
ModelConstraintLists ==
  UNION {[1..n -> ModelConstraints] : n \in 0..MaxModelCons}

\* make_separation_problem is about to call the synthesizer of objectives
\* on a model with any constraints; no separation problem has been solved
InitObjectives ==
  /\ config = BaseConfig
  /\ objective_active = [j \in Cons |-> FALSE]
  /\ uncertain_param_vars = scenario_point(1)
  /\ elapsed = 0
  /\ points_added_to_master = <<scenario_point(1)>>
  /\ master_nominal = [j \in Cons |-> 0]
  /\ master_nominal_scenario_value = 0
  /\ pc = "build"
  /\ cycle_i = 1
  /\ val_i = 1
  /\ perf_i = 1
  /\ solve_data_list = <<>>
  /\ exit_separation_loop = FALSE
  /\ returned = NoReturn
  /\ chunk_i = 1
  /\ discrete_list = <<>>
  /\ opt_i = 1
  /\ solve_data = NoResult
  /\ invoked = <<>>
  /\ attempted = <<>>
  /\ budget_bins = {}
  /\ solver_options = default_solver_options(config)
  /\ at_entry = [config |-> config, solver_options |-> solver_options]
  /\ \E cons \in ModelConstraintLists : sep_model = unbuilt(cons)
  /\ model_data = default_model_data(config)
  /\ solve_times = NoSolveTimes
  /\ GlobalSets = [name \in {"UnindexedComponent_set"} |-> 1]
  /\ instances = <<[name |-> "UnindexedComponent_set",
                   local_name |-> "UnindexedComponent_set"]>>
  /\ pickled = {}
  /\ outcome = NoOutcome

\* the h(x,q) constraints deactivated at the end of make_separation_problem
h_x_q_deactivated(md) ==
  [md EXCEPT !.h_x_q_constraints =
     [k \in 1..Len(md.h_x_q_constraints) |-> FALSE]]

\* make_separation_problem is entered: the model is cloned, the surrogate
\* variables are created, and every constraint that holds an uncertain
\* parameter is replaced by its counterpart in util.new_constraints
make_separation_problem_begin ==
  /\ pc = "clone"
  /\ LET r == clone_and_substitute(model_data.original, config)
     IN  /\ sep_model' =
              [unbuilt(r.constraints) EXCEPT !.error = r.error]
              @@ [new_constraints |-> r.new_constraints,
                  map_new_constraint_list_to_original_con |->
                    r.map_new_constraint_list_to_original_con]
         /\ uncertain_param_vars' = r.uncertain_param_vars
         /\ model_data' =
              IF r.shared
                THEN [model_data EXCEPT !.original.constraints = r.constraints]
                ELSE model_data
         /\ pc' = IF r.error = "none" THEN "build" ELSE "raised"
  /\ UNCHANGED <<config, objective_active, elapsed,
                 points_added_to_master, master_nominal,
                 master_nominal_scenario_value, cycle_i, val_i, perf_i,
                 solve_data_list, exit_separation_loop, returned, chunk_i,
                 discrete_list, opt_i, solve_data, invoked, attempted,
                 budget_bins, solver_options, at_entry,
                 solve_times, GlobalSets, instances, pickled, outcome>>

\* make_separation_problem, continued: the objectives are made for the
\* constraints of the separation model and the h(x,q) constraints
\* deactivated; a ValueError of the synthesizer propagates
make_separation_problem ==
  /\ pc = "build"
  /\ ~sep_model.built
  /\ sep_model' =
       make_separation_objective_functions(sep_model.constraints) @@ sep_model
  /\ pc' = IF sep_model'.error = "none" THEN "idle" ELSE "raised"
  /\ model_data' = IF sep_model'.error = "none"
                     THEN h_x_q_deactivated(model_data) ELSE model_data
  /\ UNCHANGED <<config, objective_active, uncertain_param_vars, elapsed,
                 points_added_to_master, master_nominal,
                 master_nominal_scenario_value, cycle_i, val_i, perf_i,
                 solve_data_list, exit_separation_loop, returned, chunk_i,
                 discrete_list, opt_i, solve_data, invoked, attempted,
                 budget_bins, solver_options, at_entry,
                 solve_times, GlobalSets, instances, pickled, outcome>>

NextObjectives == make_separation_problem

SpecObjectives == InitObjectives /\ [][NextObjectives]_vars

\* ------------------------------- make_separation_problem, called twice

\* no separation model has been built yet
NoBuild ==
  [done |-> FALSE, objectives |-> <<>>, surrogates |-> <<>>, error |-> "none"]

\* the lists of constraints a deterministic model may hold
OriginalConstraintLists ==
  UNION {[1..n -> OriginalConstraints] : n \in 0..MaxModelCons}

\* the caller builds the separation model once more from the same
\* deterministic model and configuration
make_separation_problem_again ==
  /\ pc \in {"idle", "raised"}
  /\ ~model_data.first_build.done
  /\ model_data' =
       [model_data EXCEPT !.first_build =
          [done |-> TRUE,
           objectives |-> sep_model.separation_objectives,
           surrogates |-> uncertain_param_vars,
           error |-> sep_model.error]]
  /\ sep_model' = unbuilt(<<>>)
  /\ uncertain_param_vars' = <<>>
  /\ pc' = "clone"
  /\ UNCHANGED <<config, objective_active, elapsed,
                 points_added_to_master, master_nominal,
                 master_nominal_scenario_value, cycle_i, val_i, perf_i,
                 solve_data_list, exit_separation_loop, returned, chunk_i,
                 discrete_list, opt_i, solve_data, invoked, attempted,
                 budget_bins, solver_options, at_entry,
                 solve_times, GlobalSets, instances, pickled, outcome>>

\* make_separation_problem is about to be called on a deterministic model
\* with any constraints, under either objective focus; the h(x,q)
\* constraint is active and no surrogate variable exists
InitBuild ==
  /\ \E focus \in {"nominal", "worst_case"} :
       config = [BaseConfig EXCEPT !.objective_focus = focus]
  /\ objective_active = [j \in Cons |-> FALSE]
  /\ uncertain_param_vars = <<>>
  /\ elapsed = 0
  /\ points_added_to_master = <<scenario_point(1)>>
  /\ master_nominal = [j \in Cons |-> 0]
  /\ master_nominal_scenario_value = 0
  /\ pc = "clone"
  /\ cycle_i = 1
  /\ val_i = 1
  /\ perf_i = 1
  /\ solve_data_list = <<>>
  /\ exit_separation_loop = FALSE
  /\ returned = NoReturn
  /\ chunk_i = 1
  /\ discrete_list = <<>>
  /\ opt_i = 1
  /\ solve_data = NoResult
  /\ invoked = <<>>
  /\ attempted = <<>>
  /\ budget_bins = {}
  /\ solver_options = default_solver_options(config)
  /\ at_entry = [config |-> config, solver_options |-> solver_options]
  /\ sep_model = unbuilt(<<>>)
  /\ \E cons \in OriginalConstraintLists, in_objective \in BOOLEAN :
       /\ config.objective_focus = "nominal" => ~in_objective
       /\ model_data =
            [default_model_data(config) EXCEPT !.h_x_q_constraints = <<TRUE>>]
            @@ [original |-> [constraints |-> cons,
                              uncertain_params |-> scenario_point(1),
                              objective_has_param |-> in_objective],
                first_build |-> NoBuild]
  /\ solve_times = NoSolveTimes
  /\ GlobalSets = [name \in {"UnindexedComponent_set"} |-> 1]
  /\ instances = <<[name |-> "UnindexedComponent_set",
                   local_name |-> "UnindexedComponent_set"]>>
  /\ pickled = {}
  /\ outcome = NoOutcome

NextBuild ==
  \/ make_separation_problem_begin
  \/ make_separation_problem
  \/ make_separation_problem_again

SpecBuild == InitBuild /\ [][NextBuild]_vars

\* --------------------------------------- get_index_of_max_violation alone

\* results of one row of a discrete solve_data_list
MaxRemaining == 2

RECURSIVE concat_bins(_, _, _)
concat_bins(a, b, i) ==
  IF i > Len(b) THEN <<>>
  ELSE perf_constraints(a, b[i]) \o concat_bins(a, b, i + 1)

\* the constraints of one tier pass in the order they are attempted
schedule_of(a) == concat_bins(a, sorted_unique_priorities(a), 1)

\* the result of an acceptable solve for constraint c alone active
solved_result(values, nom_value, tol, c, point) ==
  update_solve_data_violations(
    [NoResult EXCEPT !.termination_condition = "optimal", !.fixed_point = point],
    values, nom_value, tol, [j \in Cons |-> j = c], point)

\* the solve_data_list of a pass that solved every constraint; a discrete
\* pass solved the n scenarios left, the objectives taking the values vals[k]
\* at scenario k whichever constraint was separated (the problem is square)
discrete_pass(order, nominal, tol, n, vals) ==
  [i \in 1..NumCons |->
     [k \in 1..n |->
        solved_result(vals[k], nominal[order[i]], tol, order[i],
                      scenario_point(k + 1))]]

continuous_pass(order, nominal, tol, vals) ==
  [i \in 1..NumCons |->
     <<solved_result(vals[i], nominal[order[i]], tol, order[i], scenario_point(1))>>]

\* the loop over the bins has ended without a short-circuit and
\* get_index_of_max_violation is about to be called
InitAgg ==
  /\ \E g \in {"continuous", "discrete"}, po \in PriorityOrders, n \in 1..MaxRemaining :
       /\ config = [BaseConfig EXCEPT
                      !.geometry = g,
                      !.separation_priority_order = po,
                      !.bypass_global_separation = TRUE,
                      !.scenarios = [s \in 1..(n + 1) |-> scenario_point(s)]]
       /\ g = "continuous" => n = 1
       /\ \E nom \in NominalValues : master_nominal = [j \in Cons |-> nom]
       /\ IF g = "discrete"
            THEN \E vals \in [1..n -> [Cons -> RawValues]] :
                   solve_data_list =
                     discrete_pass(schedule_of(actual_sep_priority_dict(po)),
                                   master_nominal, Unit, n, vals)
            ELSE \E vals \in [1..NumCons -> [Cons -> RawValues]] :
                   solve_data_list =
                     continuous_pass(schedule_of(actual_sep_priority_dict(po)),
                                     master_nominal, Unit, vals)
  /\ cycle_i = 1
  /\ val_i = Len(bins)
  /\ perf_i = Len(bin)
  /\ objective_active = [j \in Cons |-> FALSE]
  /\ uncertain_param_vars = scenario_point(1)
  /\ elapsed = 0
  /\ points_added_to_master = <<scenario_point(1)>>
  /\ master_nominal_scenario_value = master_nominal[perf_con]
  /\ pc = "do_we_return"
  /\ exit_separation_loop = FALSE
  /\ returned = NoReturn
  /\ chunk_i = 1
  /\ discrete_list = <<>>
  /\ opt_i = 1
  /\ solve_data = NoResult
  /\ invoked = <<>>
  /\ attempted = [i \in 1..NumCons |->
                    [is_global |-> FALSE,
                     perf_con |-> schedule_of(actual)[i],
                     budget_bins |-> {},
                     obj_in_map |-> TRUE,
                     nominal_found |-> TRUE]]
  /\ budget_bins = {}
  /\ solver_options = default_solver_options(config)
  /\ at_entry = [config |-> config, solver_options |-> solver_options]
  /\ sep_model = make_separation_objective_functions(StandardConstraints)
  /\ model_data = default_model_data(config)
  /\ solve_times = NoSolveTimes
  /\ GlobalSets = [name \in {"UnindexedComponent_set"} |-> 1]
  /\ instances = <<[name |-> "UnindexedComponent_set",
                   local_name |-> "UnindexedComponent_set"]>>
  /\ pickled = {}
  /\ outcome = NoOutcome

NextAgg == do_we_return

SpecAgg == InitAgg /\ [][NextAgg]_vars

\* ================================================================= claims

num_active_objectives == Cardinality({j \in Cons : objective_active[j]})

\* C1: in every state reached through any sequence of calls of
\* solve_separation_problem, calls that return early or raise included, at
\* most one separation objective is active.
C1_AtMostOneObjectiveActive == num_active_objectives <= 1

\* C2: whenever the call returns a worst case (idx_i, idx_j), that entry of
\* solve_data_list exists and is a violating result, and the index
\* selection never raises a KeyError.
C2_WorstCaseIsViolatingResult ==
  /\ (pc = "returned" /\ returned.idx_i # None) =>
       /\ returned.idx_i \in 1..Len(solve_data_list)
       /\ returned.idx_j \in 1..Len(solve_data_list[returned.idx_i])
       /\ solve_data_list[returned.idx_i][returned.idx_j].found_violation
  /\ pc = "raised" => returned.kind # "KeyError"

\* C3: within one tier pass a constraint attempted earlier has a priority
\* greater than or equal to one attempted later, so bins are processed in
\* descending order and a bin is finished before a lower one is started.
C3_DescendingPriorityOrder ==
  \A a \in 1..Len(attempted) : \A b \in 1..Len(attempted) :
    (a < b /\ attempted[a].is_global = attempted[b].is_global) =>
      actual[attempted[a].perf_con] >= actual[attempted[b].perf_con]

\* a pass attempted constraint 2 before constraint 1, their priorities apart
C3_Witness ==
  \E a \in 1..Len(attempted) : \E b \in 1..Len(attempted) :
    /\ a < b
    /\ attempted[a].is_global = attempted[b].is_global
    /\ attempted[a].perf_con > attempted[b].perf_con
    /\ actual[attempted[a].perf_con] > actual[attempted[b].perf_con]

\* C4: once the elapsed-time budget was found reached after a solver call
\* made in bin k, no constraint of a bin with priority < k is attempted in
\* that call.
C4_NoAttemptBelowBudgetBin ==
  \A a \in 1..Len(attempted) :
    \A k \in attempted[a].budget_bins : actual[attempted[a].perf_con] >= k

\* C5: once the constraints of bin k are solved and one of the results has
\* found_violation = True, no constraint of a lower bin is solved in that
\* call.
C5_ReturnAfterViolatingBin ==
  LET pass == SelectSeq(attempted, LAMBDA a : a.is_global = is_global)
  IN  \A m \in 1..Len(pass) : \A i \in 1..Len(solve_data_list) :
        (i < m /\ found_count(solve_data_list[i]) > 0) =>
          actual[pass[i].perf_con] <= actual[pass[m].perf_con]

\* C8: list_of_scaled_violations has one entry per performance constraint,
\* entry j being the value of objective j divided by max(1, |nominal value
\* of constraint j|).
C8_ScaledByOwnNominalValue ==
  \A i \in 1..Len(solve_data_list) : \A k \in 1..Len(solve_data_list[i]) :
    LET r == solve_data_list[i][k]
    IN  r.objective_values # <<>> =>
          /\ Len(r.list_of_scaled_violations) = NumCons
          /\ \A j \in Cons :
               r.list_of_scaled_violations[j] * denom(master_nominal[j])
                 = r.objective_values[j] * Unit

\* the claim's matrix: one row per violating result, entries max(scaled, 0)
violating_results ==
  {<<i, k>> \in (1..Len(solve_data_list)) \X (1..MaxRemaining) :
     /\ k <= Len(solve_data_list[i])
     /\ solve_data_list[i][k].found_violation}

claimed_column_sum(j) ==
  LET RECURSIVE total(_)
      total(R) ==
        IF R = {} THEN 0
        ELSE LET r == CHOOSE x \in R : TRUE
             IN  Max2(solve_data_list[r[1]][r[2]].list_of_scaled_violations[j], 0)
                   + total(R \ {r})
  IN  total(violating_results)

\* C6: the constraint index returned by get_index_of_max_violation is a
\* column of maximal column sum of the violations matrix, and the sentinel
\* (None, None) is returned when no result is violating or every row of the
\* matrix the function built is all-zero.
C6_MaxColumnSumOrSentinel ==
  LET m == matrix_of_violations(solve_data_list, is_discrete)
      all_zero == \A i \in 1..Len(m) : \A j \in Cons : m[i][j] = 0
  IN  pc \in {"returned", "perf_con"} =>
        /\ returned.idx_i # None =>
             \A j \in Cons :
               claimed_column_sum(j) <= claimed_column_sum(returned.idx_i)
        /\ (violating_results = {} \/ all_zero) =>
             (returned.idx_i = None /\ returned.idx_j = None)

\* the result solver_call_separation has just handed back
call_returned == pc \in {"after_solve", "chunk"} /\ invoked # <<>>

solved_within_budget ==
  /\ call_returned
  /\ solve_data.termination_condition \in acceptable_conditions(is_global)
  /\ ~solve_data.time_limit_reached

\* C7: after a solve that ends with an acceptable status within the time
\* budget, found_violation is True exactly when the value of the active
\* objective divided by max(1, |nominal value|) is strictly greater than
\* robust_feasibility_tolerance.
C7_FoundIffStrictlyAboveTolerance ==
  solved_within_budget =>
    LET o == solve_data.active_objective
    IN  /\ o \in Cons
        /\ objective_active[o]
        /\ solve_data.found_violation <=>
             (solve_data.objective_values[o] * Unit
                > config.robust_feasibility_tolerance
                    * Max2(1, Abs(master_nominal_scenario_value)))

\* a solve whose scaled value equals a positive tolerance: not a violation
C7_Witness ==
  /\ solved_within_budget
  /\ config.robust_feasibility_tolerance > 0
  /\ solve_data.objective_values[solve_data.active_objective] * Unit
       = config.robust_feasibility_tolerance
           * Max2(1, Abs(master_nominal_scenario_value))
  /\ ~solve_data.found_violation

range(q) == {q[i] : i \in 1..Len(q)}

\* the scenarios of the configured set that are not yet in the master
scenarios_not_in_master ==
  {s \in 1..Len(config.scenarios) :
     config.scenarios[s] \notin range(points_added_to_master)}

\* C9: discrete_solve returns exactly S - A results, one per scenario not
\* yet in the master problem (in scenario order), and the solver is invoked
\* for no scenario already in the master problem.
C9_OneResultPerRemainingScenario ==
  /\ pc = "after_solve" =>
       LET row == solve_data_list[Len(solve_data_list)]
           A == Cardinality({s \in 1..Len(config.scenarios) :
                   config.scenarios[s] \in range(points_added_to_master)})
       IN  /\ Len(row) = Len(config.scenarios) - A
           /\ {row[k].fixed_point : k \in 1..Len(row)}
                = {config.scenarios[s] : s \in scenarios_not_in_master}
           /\ \A k \in 1..Len(row) : \A m \in 1..Len(row) :
                k < m => scenarios_index(config.scenarios, row[k].fixed_point)
                           < scenarios_index(config.scenarios, row[m].fixed_point)
  /\ \A k \in 1..Len(discrete_list) :
       discrete_list[k].fixed_point \notin range(points_added_to_master)
  /\ pc = "opt" => uncertain_param_vars \notin range(points_added_to_master)

\* discrete_solve has returned having skipped the second scenario of the
\* list and solved another
C9_Witness ==
  /\ pc = "after_solve"
  /\ config.scenarios[2] \in range(points_added_to_master)
  /\ Len(solve_data_list[Len(solve_data_list)]) >= 1
  /\ Len(solve_data_list[Len(solve_data_list)])
       = Len(config.scenarios) - Len(points_added_to_master)

\* the order of the invocations made so far in one call of
\* solver_call_separation, and the bound on their number
C10_InvocationOrder ==
  /\ Len(invoked) <= Len(backup_solvers)
  /\ \A i \in 1..Len(invoked) : invoked[i].opt = backup_solvers[i]
  /\ \A i \in 1..Len(invoked) : \A j \in 1..Len(invoked) :
       i # j => invoked[i].opt # invoked[j].opt
  /\ \A i \in 1..(Len(invoked) - 1) :
       invoked[i].termination_condition \notin acceptable_conditions(is_global)
  /\ pc = "opt" => (opt_i = Len(invoked) + 1 /\ opt_i <= Len(backup_solvers))

accepted_in_tier(global) ==
  IF global THEN {"optimal", "globallyOptimal"}
  ELSE {"optimal", "locallyOptimal", "globallyOptimal"}

C11_LoadedOnlyIfAccepted ==
  /\ solve_data.objective_values # <<>> =>
       solve_data.termination_condition \in accepted_in_tier(is_global)
  /\ \A i \in 1..Len(invoked) :
       (is_global /\ invoked[i].termination_condition = "locallyOptimal"
          /\ i < Len(backup_solvers)) =>
         \/ Len(invoked) > i
         \/ pc = "opt" /\ opt_i = i + 1
         \/ solve_data.time_limit_reached

C11_ModelKeptOnFailure ==
  (pc = "opt" /\ pc' # "raised"
     /\ invoked'[Len(invoked')].termination_condition
          \notin accepted_in_tier(is_global))
    => /\ uncertain_param_vars' = uncertain_param_vars
       /\ model_data'.vars = model_data.vars
       /\ solve_data'.objective_values = <<>>

\* C11: a result is loaded into the separation model and its violation
\* evaluated only if its termination status is acceptable for the tier; a
\* locallyOptimal status in the global tier is a failure after which the
\* next backup solver is tried; a solve with an unacceptable status leaves
\* the model's variable values unchanged.
C11_LoadOnlyOnAcceptableStatus ==
  []C11_LoadedOnlyIfAccepted /\ [][C11_ModelKeptOnFailure]_vars

\* in the global tier the primary solver ended locallyOptimal and the
\* backup's solution was loaded, moving the model's variables
C11_Witness ==
  /\ call_returned
  /\ is_global
  /\ Len(invoked) = 2
  /\ invoked[1].termination_condition = "locallyOptimal"
  /\ solve_data.objective_values # <<>>
  /\ ~is_discrete
  /\ uncertain_param_vars # scenario_point(2)

\* C12: when a solver invocation raises ApplicationError, the error is
\* logged and re-raised, no later backup solver is invoked, and the solver's
\* time-limit adjustment has been reverted when the error propagates.
C12_SolverCrashIsFatal ==
  \A i \in 1..Len(invoked) :
    invoked[i].termination_condition = "ApplicationError" =>
      /\ i = Len(invoked)
      /\ pc = "raised"
      /\ returned.kind = "ApplicationError"
      /\ returned.logged
      /\ solver_options = at_entry.solver_options

\* the primary solver crashed with a time limit configured and a backup
\* solver left untried
C12_Witness ==
  /\ pc = "raised"
  /\ returned.kind = "ApplicationError"
  /\ Len(invoked) = 1
  /\ Len(backup_solvers) = 2
  /\ config.time_limit # 0
  /\ opt_setting(1).custom_setting_present

\* C14: after a call of solver_call_separation, however it ends, the backup
\* lists of config have the length, order and time-limit settings they had
\* before the call, and so has the primary solver's time-limit setting.
C14_NoSolverSettingPersists ==
  pc # "call" =>
    /\ config.backup_local_solvers = at_entry.config.backup_local_solvers
    /\ config.backup_global_solvers = at_entry.config.backup_global_solvers
    /\ solver_options = at_entry.solver_options

\* a call that used the primary solver and a backup under a time limit,
\* the primary solver having a max-time option of its own
C14_Witness ==
  /\ call_returned
  /\ Len(invoked) = 2
  /\ config.time_limit # 0
  /\ at_entry.solver_options.local_solver.custom_setting_present

\* C17: the elapsed-time budget is checked after every solver call: with a
\* time limit set and reached, the result has found_violation = False and
\* the stop signal is returned even with an acceptable status, and no
\* further backup solver is invoked; with time_limit 0 the check never
\* stops the schedule.
C17_BudgetCheckedAfterEverySolve ==
  /\ (call_returned /\ config.time_limit # 0 /\ elapsed >= config.time_limit) =>
       /\ ~solve_data.found_violation
       /\ solve_data.stop_signal
  /\ (pc = "opt" /\ invoked # <<>>) =>
       ~(config.time_limit # 0 /\ elapsed >= config.time_limit)
  /\ (call_returned /\ config.time_limit = 0
        /\ solve_data.termination_condition \in accepted_in_tier(is_global)) =>
       ~solve_data.stop_signal

\* the budget was reached by a solve that ended with an acceptable status
C17_Witness ==
  /\ call_returned
  /\ config.time_limit # 0
  /\ elapsed >= config.time_limit
  /\ solve_data.termination_condition \in accepted_in_tier(is_global)
  /\ solve_data.stop_signal
  /\ ~solve_data.found_violation

\* the results of the pass whose solvers all ended with an unacceptable
\* status, the time budget not being the cause
exhausted_results ==
  {i \in 1..Len(solve_data_list) :
     /\ solve_data_list[i][1].stop_signal
     /\ ~solve_data_list[i][1].time_limit_reached}

\* C13: when every solver of the list returns an unacceptable status for a
\* constraint, no exception is raised, the result has found_violation =
\* False, and the outcome is confined to that constraint: the remaining
\* constraints of the pass are still attempted.
C13_ExhaustionConfinedToConstraint ==
  (~is_discrete /\ exhausted_results # {}) =>
    /\ pc # "raised"
    /\ \A i \in exhausted_results : ~solve_data_list[i][1].found_violation
    /\ pc = "returned" =>
         \A c \in Cons : \E k \in 1..Len(attempted) :
           attempted[k].perf_con = c /\ attempted[k].is_global = is_global

\* the attempts of the call that went on to a solve, in order
solves ==
  LET dispatched(a) == a.obj_in_map /\ a.nominal_found
  IN  SelectSeq(attempted, dispatched)

local_before_global ==
  \A i \in 1..Len(solves), j \in 1..Len(solves) :
    (i < j /\ solves[i].is_global) => solves[j].is_global

global_after_clean_local_pass ==
  (~config.bypass_local_separation /\ ~config.bypass_global_separation) =>
    /\ (\E k \in 1..Len(attempted) : attempted[k].is_global) => cycle_i = 2
    /\ cycle_i = 2 =>
         \A c \in Cons : \E k \in 1..Len(solves) :
           solves[k].perf_con = c /\ ~solves[k].is_global

\* the step to the global tier is taken after the whole local pass, with
\* no violation found and no short-circuit
global_tier_entered ==
  cycle_i' # cycle_i =>
    /\ pc = "do_we_return"
    /\ ~any_found_violation(solve_data_list)
    /\ ~exit_separation_loop

only_local_solves ==
  \A k \in 1..Len(solves) : ~solves[k].is_global

only_global_solves ==
  \A k \in 1..Len(solves) : solves[k].is_global

\* C15 as stated: with bypass_local_separation only global solves occur.
C15_BypassLocalMeansGlobalOnly ==
  /\ local_before_global
  /\ global_after_clean_local_pass
  /\ config.bypass_global_separation => only_local_solves
  /\ config.bypass_local_separation => only_global_solves

C15_TierStates ==
  /\ local_before_global
  /\ global_after_clean_local_pass
  /\ config.bypass_global_separation => only_local_solves
  /\ (config.bypass_local_separation /\ ~config.bypass_global_separation) =>
       only_global_solves

\* C15: when neither tier is bypassed, all local-tier solves of a call
\* precede all global-tier solves and a global-tier solve is invoked only
\* if the local pass found no violation and did not short-circuit; with
\* bypass_global_separation, whether or not bypass_local_separation is set
\* too, only local solves occur; with bypass_local_separation alone only
\* global solves occur.
C15_LocalTierBeforeGlobalTier ==
  []C15_TierStates /\ [][global_tier_entered]_vars

\* both tiers have run in one call
C15_Witness ==
  /\ ~config.bypass_local_separation
  /\ ~config.bypass_global_separation
  /\ pc = "returned"
  /\ \E k \in 1..Len(solves) : ~solves[k].is_global
  /\ \E k \in 1..Len(solves) : solves[k].is_global

\* the attempts made in the tier pass under way
attempts_of_pass(c) ==
  {k \in 1..Len(attempted) :
     attempted[k].perf_con = c /\ attempted[k].is_global = is_global}

\* C16: without a short-circuit, every performance constraint is attempted
\* exactly once per tier pass: each belongs to exactly one priority bin,
\* its priority being the configured one for its name or 0 when none is
\* configured.
C16_OnceEachPerTierPass ==
  /\ \A c \in Cons :
       /\ Cardinality({v \in 1..Len(bins) :
                         c \in range(perf_constraints(actual, bins[v]))}) = 1
       /\ actual[c] = IF c \in DOMAIN config.separation_priority_order
                        THEN config.separation_priority_order[c] ELSE 0
       /\ Cardinality(attempts_of_pass(c)) <= 1
  /\ pc = "do_we_return" =>
       \A c \in Cons : Cardinality(attempts_of_pass(c)) = 1

\* the global pass has ended after a local pass, one constraint with a
\* configured priority and another without
C16_Witness ==
  /\ pc = "do_we_return"
  /\ cycle_i = 2
  /\ Len(attempted) = 2 * NumCons
  /\ DOMAIN config.separation_priority_order \notin {{}, Cons}

\* C20: when the constraint about to be separated has no objective in the
\* objective map, or its nominal-scenario value cannot be obtained,
\* solve_separation_problem raises a ValueError before any solver is
\* invoked for that constraint.
C20_LookupFailureRaisesBeforeSolve ==
  \A k \in 1..Len(attempted) :
    (~attempted[k].obj_in_map \/ ~attempted[k].nominal_found) =>
      /\ k = Len(attempted)
      /\ pc = "raised"
      /\ returned.kind = "ValueError"

\* the second constraint has no objective in the map; the first was solved
C20_Witness ==
  /\ pc = "raised"
  /\ returned.kind = "ValueError"
  /\ Len(attempted) = 2
  /\ ~attempted[2].obj_in_map
  /\ Len(solves) = 1

\* the objectives made for the constraint at position i of the model
objectives_of(i) ==
  {n \in 1..Len(sep_model.separation_objectives) :
     sep_model.separation_objectives[n].constr = i}

\* C18: for every performance constraint with an upper bound u and body b
\* the synthesizer creates a maximize-sense objective with expression
\* b - u; if any performance constraint has only a lower bound, building
\* the separation model fails with a ValueError.
C18_MaximizeBodyMinusUpper ==
  sep_model.built =>
    LET cons == sep_model.constraints
        perf == sep_model.performance_constraints
    IN  /\ sep_model.error = "none" =>
             \A k \in 1..Len(perf) :
               cons[perf[k]].upper # None =>
                 /\ Cardinality(objectives_of(perf[k])) = 1
                 /\ \A n \in objectives_of(perf[k]) :
                      /\ sep_model.separation_objectives[n].sense = "maximize"
                      /\ sep_model.separation_objectives[n].expr =
                           cons[perf[k]].body - cons[perf[k]].upper
        /\ (\E k \in 1..Len(perf) :
              cons[perf[k]].upper = None /\ cons[perf[k]].lower # None)
             => /\ sep_model.error = "ValueError"
                /\ pc = "raised"

\* two performance constraints with an upper bound, one of them with a
\* lower bound as well, and bodies that differ
C18_Witness ==
  /\ sep_model.built
  /\ sep_model.error = "none"
  /\ Len(sep_model.performance_constraints) = 2
  /\ Len(sep_model.separation_objectives) = 2
  /\ sep_model.constraints[1].lower # None
  /\ sep_model.constraints[2].lower = None
  /\ sep_model.separation_objectives[1].expr
       # sep_model.separation_objectives[2].expr

\* no active inequality of the model depends on an uncertain parameter, a
\* state variable or a second-stage variable
no_dependent_inequality(cons) ==
  ~ \E i \in 1..Len(cons) :
      cons[i].active /\ ~cons[i].equality /\ cons[i].depends

no_objective_on_empty_model ==
  (~sep_model.built /\ no_dependent_inequality(sep_model.constraints)) =>
    /\ sep_model'.error = "ValueError"
    /\ sep_model'.separation_objectives = <<>>
    /\ pc' = "raised"

\* C19: if no active inequality constraint depends on an uncertain
\* parameter, a state variable or a second-stage variable,
\* make_separation_objective_functions fails with a ValueError and creates
\* no objective.
C19_NoPerformanceConstraintIsAnError ==
  [][no_objective_on_empty_model]_vars

\* the synthesizer failed on a model whose only dependent constraints are
\* an equality and an inequality that was not active
C19_Witness ==
  /\ sep_model.built
  /\ sep_model.error = "ValueError"
  /\ sep_model.performance_constraints = <<>>
  /\ Len(sep_model.constraints) = 2
  /\ \E i \in 1..2 : sep_model.constraints[i].equality /\ sep_model.constraints[i].depends
  /\ \E i \in 1..2 : /\ ~sep_model.constraints[i].equality
                     /\ sep_model.constraints[i].depends
                     /\ ~sep_model.constraints[i].active

\* C21: if any uncertain-parameter-only (h(x,q)) constraint is active when
\* initialize_separation runs, it raises an error and no solver is invoked
\* for that separation attempt.
C21_ActiveHxqStopsTheAttempt ==
  (pc # "call" /\ \E k \in 1..Len(model_data.h_x_q_constraints) :
                    model_data.h_x_q_constraints[k]) =>
    /\ pc = "raised"
    /\ returned.kind = "AttributeError"
    /\ invoked = <<>>

\* the attempt ended in initialize_separation with a primary solver and a
\* backup solver at hand
C21_Witness ==
  /\ pc = "raised"
  /\ returned.kind = "AttributeError"
  /\ invoked = <<>>
  /\ Len(backup_solvers) = 2
  /\ model_data.h_x_q_constraints[1]

\* the results of the pass under way
results_of_pass == 1..Len(solve_data_list)

\* the constraints attempted in the pass under way
attempts_in_pass ==
  {k \in 1..Len(attempted) : attempted[k].is_global = is_global}

\* C22: if evaluating a separation objective raises during violation
\* evaluation, the variable values are logged and an ArithmeticError
\* propagates out of solve_separation_problem; no result for that solve is
\* added to the returned results.
C22_EvaluationErrorIsFatal ==
  /\ \A i \in results_of_pass :
       (/\ solve_data_list[i][1].termination_condition
             \in accepted_in_tier(is_global)
        /\ ~solve_data_list[i][1].time_limit_reached)
         => Len(solve_data_list[i][1].objective_values) = NumCons
  /\ (pc = "raised" /\ returned.kind = "ArithmeticError") =>
       /\ returned.logged
       /\ returned.violating_realizations = <<>>
       /\ returned.violations = <<>>
       /\ Len(solve_data_list) = Cardinality(attempts_in_pass) - 1

\* the evaluation failed for the second constraint of the global pass
C22_Witness ==
  /\ pc = "raised"
  /\ returned.kind = "ArithmeticError"
  /\ is_global
  /\ Len(solve_data_list) = 1
  /\ cycle_i = 2

\* C23: in the separation model that make_separation_problem produces the
\* number of surrogate variables equals the number of uncertain parameters,
\* surrogate i stands for uncertain parameter i, and the initial value of
\* each surrogate is the nominal value of its parameter.
C23_OneSurrogatePerParameter ==
  pc \in {"build", "idle", "raised"} =>
    /\ Len(uncertain_param_vars) = Len(model_data.original.uncertain_params)
    /\ \A i \in 1..Len(uncertain_param_vars) :
         uncertain_param_vars[i] = model_data.original.uncertain_params[i]

\* a model was built whose surrogates hold the nominal point, the
\* coordinates of which differ
C23_Witness ==
  /\ pc = "idle"
  /\ sep_model.built
  /\ Len(uncertain_param_vars) = NumParams
  /\ uncertain_param_vars = scenario_point(1)
  /\ uncertain_param_vars[1] # uncertain_param_vars[NumParams]

\* the second build has come to its end
second_build_done(md, at) == md.first_build.done /\ at \in {"idle", "raised"}

\* the step leaves the deterministic model as it was, and a second build
\* that it completes ends as the first did
original_kept_and_build_repeats ==
  /\ model_data'.original = model_data.original
  /\ second_build_done(model_data', pc') =>
       /\ Len(sep_model'.separation_objectives)
            = Len(model_data'.first_build.objectives)
       /\ Len(uncertain_param_vars') = Len(model_data'.first_build.surrogates)
       /\ sep_model'.error = model_data'.first_build.error

with_uncertain_param ==
  {i \in 1..Len(sep_model.constraints) : sep_model.constraints[i].has_param}

\* the entries of util.new_constraints mapped to the constraint at i
counterparts_of(i) ==
  {k \in 1..Len(sep_model.new_constraints) :
     sep_model.map_new_constraint_list_to_original_con[k] = i}

\* new is c re-expressed: lower == body for an equality, lower <= body when
\* c has a lower bound, body <= upper otherwise, with no parameter left
re_expressed(c, new) ==
  /\ new.equality = c.equality
  /\ new.body = c.body
  /\ ~new.has_param
  /\ c.lower # None => new.lower = c.lower
  /\ (~c.equality /\ c.lower # None) => new.upper = None
  /\ c.lower = None => (new.lower = None /\ new.upper = c.upper)

\* C27: for every constraint of the clone whose expression holds an
\* uncertain parameter make_separation_problem adds exactly one constraint
\* to util.new_constraints (equality, lower <= body or body <= upper),
\* deactivates the original and maps the new constraint to it; the list
\* has as many entries as there are such originals, and a constraint with
\* no bound to classify it by raises a ValueError.
C27_OneCounterpartPerOriginal ==
  /\ pc = "build" =>
       /\ Len(sep_model.new_constraints) = Cardinality(with_uncertain_param)
       /\ \A i \in with_uncertain_param :
            /\ ~sep_model.constraints[i].active
            /\ Cardinality(counterparts_of(i)) = 1
            /\ \A k \in counterparts_of(i) :
                 re_expressed(sep_model.constraints[i],
                              sep_model.constraints[sep_model.new_constraints[k]])
  /\ (pc # "clone" /\ \E i \in with_uncertain_param :
                         unparsable(sep_model.constraints[i]))
       => (pc = "raised" /\ sep_model.error = "ValueError" /\ ~sep_model.built)

\* three constraints were re-expressed under the worst-case focus, an
\* equality and the epigraph constraint among them, and one of the
\* originals was not active to begin with
C27_Witness ==
  /\ pc = "build"
  /\ Len(sep_model.new_constraints) = 3
  /\ \E k \in 1..3 :
       sep_model.constraints[sep_model.new_constraints[k]].equality
  /\ \E k \in 1..3 :
       sep_model.map_new_constraint_list_to_original_con[k]
         = Len(model_data.original.constraints) + 1
  /\ \E i \in 1..Len(model_data.original.constraints) :
       /\ model_data.original.constraints[i].has_param
       /\ ~model_data.original.constraints[i].active

\* the objectives paired with the performance constraint at position i
paired_objectives(i) ==
  {n \in 1..Len(sep_model.separation_objectives) :
     sep_model.separation_objectives[n].constr = i}

\* C26: after make_separation_problem completes every performance
\* constraint is paired with exactly one separation objective, every
\* performance constraint is inactive, every separation objective is
\* inactive, and every inequality constraint that depends on no uncertain
\* parameter, state variable or second-stage variable is inactive.
C26_EveryPerformanceConstraintHasItsObjective ==
  (pc = "idle" /\ sep_model.built /\ sep_model.error = "none") =>
    LET cons == sep_model.constraints
        perf == sep_model.performance_constraints
    IN  /\ Len(sep_model.separation_objectives) = Len(perf)
        /\ \A k \in 1..Len(perf) :
             /\ Cardinality(paired_objectives(perf[k])) = 1
             /\ ~cons[perf[k]].active
        /\ \A n \in 1..Len(sep_model.separation_objectives) :
             ~sep_model.separation_objectives[n].active
        /\ \A i \in 1..Len(cons) :
             (~cons[i].equality /\ ~cons[i].depends) => ~cons[i].active

\* every solver of the list was invoked and none ended with a status
\* acceptable in the tier
every_solver_unacceptable ==
  /\ Len(invoked) = Len(backup_solvers)
  /\ \A k \in 1..Len(invoked) :
       invoked[k].termination_condition \notin acceptable_conditions(is_global)

\* C25: the diagnostic export of the model and its log entry are written if
\* and only if every solver of the list ended with an unacceptable status
\* for the attempt and both keepfiles and subproblem_file_directory are
\* configured; nothing is written when a solver reached an acceptable
\* status or when the attempt stopped on the time limit.
C25_ExportOnlyOnExhaustion ==
  solve_data.exported <=>
    /\ pc \notin {"call", "opt", "raised"}
    /\ every_solver_unacceptable
    /\ ~solve_data.time_limit_reached
    /\ config.keepfiles
    /\ config.subproblem_file_directory # None

\* the solver and its backup failed one after the other within the time
\* limit and the model was exported
C25_Witness ==
  /\ solve_data.exported
  /\ Len(invoked) >= 2
  /\ config.time_limit # 0
  /\ config.keepfiles
  /\ config.subproblem_file_directory # None

\* initialize_separation has returned in this step
initialized_in_step == pc = "call" /\ pc' = "opt"

\* the surrogates hold the point of the block the model is initialized
\* from: the nominal block under the nominal focus, the block of the
\* current iteration otherwise; those of a discrete set are left alone
surrogates_at_point_of_block ==
  initialized_in_step =>
    IF config.geometry # "discrete"
      THEN uncertain_param_vars' =
             IF config.objective_focus = "nominal"
               THEN points_added_to_master[1]
               ELSE points_added_to_master[model_data.iteration + 1]
      ELSE uncertain_param_vars' = uncertain_param_vars

surrogates_at_most_recent_point ==
  initialized_in_step =>
    IF config.geometry # "discrete"
      THEN uncertain_param_vars' =
             points_added_to_master[Len(points_added_to_master)]
      ELSE uncertain_param_vars' = uncertain_param_vars

C29_FixedAsThePolicyRequires ==
  pc = "opt" =>
    /\ \A v \in first_stage_variables \cup decision_rule_vars :
         model_data.master_vars[v].present =>
           /\ model_data.vars[v].fixed
           /\ model_data.vars[v].value = model_data.master_vars[v].value
    /\ IF config.decision_rule_order = 0
         THEN /\ \A v \in second_stage_variables : model_data.vars[v].fixed
              /\ \A k \in 1..Len(model_data.decision_rule_eqns) :
                   ~model_data.decision_rule_eqns[k]
              /\ \A v \in decision_rule_vars : model_data.vars[v].fixed
         ELSE \A v \in second_stage_variables : ~model_data.vars[v].fixed

\* under the static policy the second-stage variable is fixed at the value
\* of the master, while a first-stage variable that the master block lacks
\* keeps the value it had and stays unfixed
C29_Witness ==
  /\ pc = "opt"
  /\ config.decision_rule_order = 0
  /\ model_data.vars["z1"].fixed
  /\ model_data.vars["z1"].value = model_data.master_vars["z1"].value
  /\ ~model_data.decision_rule_eqns[1]
  /\ ~model_data.master_vars["x2"].present
  /\ ~model_data.vars["x2"].fixed

\* every uncertainty-set membership constraint is inactive
membership_inactive ==
  \A k \in 1..Len(model_data.uncertainty_set_constraint) :
    ~model_data.uncertainty_set_constraint[k]

\* the scenario of config.uncertainty_set.scenarios that the chunk being
\* enumerated stands for
enumerated_scenario ==
  config.scenarios[(chunk_of(constraints, chunk_i)[1] \div chunk_size) + 1]

\* C30: in discrete_solve, at every solver invocation all uncertainty-set
\* membership constraints are inactive and each surrogate variable d is
\* fixed to coordinate d of the scenario being enumerated; when
\* discrete_solve returns all membership constraints are inactive.
C30_ScenarioFixedMembershipInactive ==
  /\ pc = "opt" =>
       /\ membership_inactive
       /\ \A d \in 1..NumParams :
            /\ model_data.param_vars_fixed[d]
            /\ uncertain_param_vars[d] = enumerated_scenario[d]
  /\ pc = "after_solve" => membership_inactive

\* the backup solver is about to be invoked for the second scenario of the
\* list, the first having been enumerated before it
C30_Witness ==
  /\ pc = "opt"
  /\ chunk_i = 2
  /\ opt_i = 2
  /\ Len(discrete_list) = 1
  /\ enumerated_scenario = config.scenarios[2]
  /\ uncertain_param_vars = config.scenarios[2]
  /\ uncertain_param_vars # discrete_list[1].fixed_point

\* the column sums of the violations matrix built from the results
sums_of_results ==
  column_sums(matrix_of_violations(solve_data_list, is_discrete))

\* the columns whose sum is the maximal column sum
maximal_columns ==
  {j \in Cons : \A m \in Cons : sums_of_results[m] <= sums_of_results[j]}

results_so_far ==
  UNION {range(solve_data_list[i]) : i \in 1..Len(solve_data_list)}
    \cup range(discrete_list)

\* those for which solver_call_separation returned True
stopped_results == {r \in results_so_far : r.stop_signal}

\* C32: when solver_call_separation returns True for a constraint (all
\* solvers exhausted or time limit reached), solve_separation_problem
\* returns immediately with empty violating-realization and violations
\* lists and attempts no further constraint or tier, even if a constraint
\* solved earlier in the same pass has found_violation = True.
C32_StopSignalEndsTheCall ==
  \A r \in stopped_results :
    /\ r.attempt = Len(attempted)
    /\ pc # "do_we_return"
    /\ pc = "returned" =>
         (returned.violating_realizations = <<>> /\ returned.violations = <<>>)

\* the solve time kept for the tier the call is in
time_of_tier ==
  IF is_global THEN solve_times.global_solve_time
  ELSE solve_times.local_solve_time

\* the solver times of the results the tier has produced so far, each
\* result counted once
time_of_results ==
  LET RECURSIVE total(_)
      total(R) ==
        IF R = {} THEN 0
        ELSE LET r == CHOOSE x \in R : TRUE
             IN  solve_data_list[r[1]][r[2]].solve_time + total(R \ {r})
  IN  total({<<i, k>> \in (1..Len(solve_data_list)) \X (1..MaxRemaining) :
               k <= Len(solve_data_list[i])})

\* C34: the local_time (global_time) returned by solve_separation_problem
\* equals the sum of the solver times of the results produced in the local
\* (global) tier during that call, each result counted exactly once, for
\* continuous and for discrete geometry.
C34_SolveTimeIsSumOverResults ==
  pc \in {"perf_con", "do_we_return", "returned"} =>
    /\ time_of_tier = time_of_results
    /\ ~is_global => solve_times.global_solve_time = 0

\* the results the tier has accumulated whose termination status is outside
\* the tier's acceptable set
unacceptable_results ==
  {r \in results_so_far :
     r.termination_condition \notin acceptable_conditions(is_global)}

\* C33: for a discrete set discrete_solve solves every remaining scenario
\* whatever solver_call_separation returned for the earlier scenarios, and
\* the scheduler stops after a constraint exactly when some result
\* accumulated so far in the tier has a termination status outside that
\* tier's acceptable set.
C33_DiscreteStopsOnStatusAlone ==
  pc = "after_solve" =>
    /\ \A i \in 1..Len(solve_data_list) :
         Len(solve_data_list[i]) = num_chunks(constraints)
    /\ exit_separation_loop <=> unacceptable_results # {}

\* the first of two scenarios met the time limit with an acceptable status,
\* the second scenario was solved all the same and the tier goes on
C33_Witness ==
  /\ pc = "after_solve"
  /\ Len(solve_data_list[1]) = 2
  /\ solve_data_list[1][1].stop_signal
  /\ solve_data_list[1][1].termination_condition \in acceptable_conditions(is_global)
  /\ solve_data_list[1][2].fixed_point = config.scenarios[3]
  /\ ~exit_separation_loop

\* in the global tier a locally optimal result stops the tier
C33_WitnessStop ==
  /\ pc = "after_solve"
  /\ is_global
  /\ solve_data_list[1][2].termination_condition = "locallyOptimal"
  /\ unacceptable_results # {}
  /\ exit_separation_loop

\* the attempts of the call made in the tier the call is in
attempts_of_tier ==
  {a \in 1..Len(attempted) : attempted[a].is_global = is_global}

\* the attempt the i-th inner list of the results list came from
attempt_of_row(i) == solve_data_list[i][1].attempt

\* C35: the results list solve_separation_problem returns holds only the
\* results of the tier in which the call returned, one inner list per
\* constraint attempted in that tier, in attempt order; used_global is True
\* exactly when the call returned during the global tier; the results of
\* the local tier are absent once a global pass has started.
C35_ResultsOfTheReturningTierOnly ==
  /\ (pc = "returned" /\ returned.kind = "return") =>
       /\ returned.is_global <=> attempted[Len(attempted)].is_global
       /\ Len(solve_data_list) = Cardinality(attempts_of_tier)
       /\ \A i \in 1..Len(solve_data_list) :
            /\ Len(solve_data_list[i]) >= 1
            /\ \A r \in range(solve_data_list[i]) :
                 r.attempt = attempt_of_row(i) /\ r.attempt \in attempts_of_tier
            /\ \A k \in 1..Len(solve_data_list) :
                 i < k => attempt_of_row(i) < attempt_of_row(k)
  /\ is_global =>
       \A i \in 1..Len(solve_data_list) : \A r \in range(solve_data_list[i]) :
         attempted[r.attempt].is_global

\* the call returned from the global tier after a local tier that had
\* attempted every constraint: the list holds the global results alone
C35_Witness ==
  /\ pc = "returned"
  /\ returned.kind = "return"
  /\ returned.is_global
  /\ Len(attempted) = 2 * NumCons
  /\ ~attempted[1].is_global
  /\ Len(solve_data_list) = NumCons
  /\ attempt_of_row(1) = NumCons + 1

====
